---- MODULE Spec2Model ----
(***************************************************************************)
(* A model of scripts/executor.py: ProxyValidator, VideoBooster and        *)
(* JobDispatcher, with the threads that run them.                          *)
(*                                                                         *)
(* Every `with self.lock:` block of the source is one atomic step, except  *)
(* the two counter blocks of ProxyValidator, whose load and store are      *)
(* separate steps under an explicit lock, and JobDispatcher's selection,   *)
(* which holds the dispatcher lock over one is_complete() call per video.  *)
(* Network calls are steps with a nondeterministic outcome; the wall clock *)
(* is the variable now, advanced by Tick.                                  *)
(*                                                                         *)
(* The second half models scripts/booster.py, the script that runs the     *)
(* pipeline on module-level queues with its own worker functions and       *)
(* monitor loop, and scripts/signal_handler.py. booster.py does not import *)
(* executor.py: a run of the script leaves the executor's objects unused,  *)
(* and the specifications of the executor leave the script not run.        *)
(***************************************************************************)
EXTENDS Integers, Sequences, FiniteSets, TLC

\* ------------------------------------------------------------------ bounds

\* The wall clock (datetime.now().timestamp()) when the run starts.
StartTime == 3

\* The clock advances at most this many seconds.
MaxTicks == 2

\* The cooldown of an ordinary job (300 s in the source's default).
Cooldown == 2

\* A cooldown longer than the wall clock's value at the start of the run.
LongCooldown == 5

\* View counts read from the platform range over 0..MaxView.
MaxView == 1

\* The number of raw candidates seeded at most.
MaxRaw == 3

\* booster.py: the seconds between two view-count checks of the monitor loop
\* (5 in the source), in ticks of the clock.
CheckInterval == 1

\* ------------------------------------------------------------------ universe

Proxies == {"p1", "p2"}

AllJobs == {"J1", "J2", "J3"}

DWorkers == {"d1", "d2"}

VWorkers == {"v1", "v2"}

NoThread == "none"

NoVideo == "None"

\* the thread that calls update_view_count() and is_complete() on the jobs
Monitor == "monitor"

NoProxy == "-"

\* end_time = None
NoTime == -1

\* the monitor has taken no snapshot of the job yet
NoProgress == [bv_id |-> NoVideo]

\* The constructor arguments (initial_view, target_increment, cooldown) a job
\* may be built with: a target one view away, a target met at creation, a
\* non-zero baseline with a target met at creation, a non-zero baseline with
\* a target one view away, and a cooldown longer than the clock's value.
JobConfigs ==
    { [initial |-> 0, target |-> 1, cooldown |-> Cooldown],
      [initial |-> 0, target |-> 0, cooldown |-> Cooldown],
      [initial |-> 1, target |-> 0, cooldown |-> Cooldown],
      [initial |-> 1, target |-> 1, cooldown |-> LongCooldown] }

\* The configurations of the jobs the dispatcher serves: a target one view
\* away and a target met at creation.
DispatchConfigs ==
    { [initial |-> 0, target |-> 1, cooldown |-> Cooldown],
      [initial |-> 0, target |-> 0, cooldown |-> Cooldown] }

\* The configurations that differ in the cooldown alone.
CooldownConfigs ==
    { [initial |-> 0, target |-> 1, cooldown |-> Cooldown],
      [initial |-> 0, target |-> 1, cooldown |-> LongCooldown] }

\* The pools of validated proxies the dispatcher is started on.
Pools == {<<"p1">>, <<"p1", "p2">>}

\* booster.py: the videos given on the command line (bv, --bvids or --mid):
\* two videos, or one video given twice
VideoArgs == {<<"BV1", "BV2">>, <<"BV1", "BV1">>}

\* booster.py: the validator threads and the consumer threads started for
\* each video, by the index of the video
validator_threads == <<{"bv1"}, {"bv2"}>>

consumer_threads == <<{"bc1"}, {"bc2"}>>

BThreads ==
    UNION {validator_threads[k] \cup consumer_threads[k] :
              k \in DOMAIN validator_threads}

\* booster.py: min(100, ...) of the feeding batch
BatchLimit == 100

VARIABLES
    now,              \* datetime.now().timestamp()
    \* VideoBooster fields, one function per field
    initial_view, target_increment, cooldown,
    current_view, hits, proxy_cooldowns, completed, start_time, end_time,
    \* JobDispatcher
    video_boosters,   \* the list given to the constructor
    validated_queue, round_robin_index, d_lock, d_stop,
    d_pc, d_proxy, d_video, d_i, d_incomplete, d_ret,
    \* ProxyValidator
    proxy_queue, checked_count, validated_count, v_lock, v_stop,
    v_pc, v_proxy, v_tmp,
    \* the monitor: what its last is_complete() call on each job returned
    m_done,
    \* observations (history): they never feed back into the program
    hit_time,         \* when use_proxy(R) on J last returned true
    ever_done,        \* some is_complete() call on J has returned true
    sel_log,          \* the latest selections of _get_next_video
    probes_ok,        \* how many probes have succeeded
    seeded,           \* how many raw candidates were seeded
    \* the monitor: the view count it holds, the value its last successful
    \* read returned, its last get_progress() and the job as it was then
    m_current, m_read, m_progress, m_seen,
    m_again,          \* the job had not changed between the last two snapshots
    stamps,           \* how many is_complete() calls have stamped end_time
    d_after,          \* dequeues of a dispatcher worker since stop()
    v_after,          \* dequeues of a validator worker since stop()
    \* VideoBooster.lock and the steps made while it is held
    j_lock,           \* the thread inside `with self.lock:` of each job
    u_tmp,            \* use_proxy(): self.hits as read by `self.hits += 1`
    m_pc,             \* the monitor's position in update_view_count()
    true_calls,       \* use_proxy() calls on each job that returned True
    \* ShutdownHandler and the process
    shutdown_requested,
    s_handler,        \* the handler of SIGINT, as signal.getsignal() gives it
    s_original,       \* ShutdownHandler._original_sigint
    exited, exit_status,
    \* booster.py, the main thread
    bv_ids,           \* the videos given on the command line
    b_pc, total_proxies, video_idx, increment_target, initial_view_count,
    b_current,        \* current
    last_check_time, target_reached, proxy_index,
    successful_videos, failed_videos,
    info_failed,      \* the videos whose info request failed (observation)
    fed_for,          \* proxies fed while each video was processed (observation)
    \* booster.py, the module-level pipeline state
    b_proxy_queue, b_validated_queue, stop_event,
    b_checked_count, b_validated_count, successful_hits,
    proxy_cooldown, proxy_cooldown_lock,
    \* booster.py, the worker threads
    bt_pc, bt_proxy

jobVars == <<initial_view, target_increment, cooldown, current_view, hits,
             proxy_cooldowns, completed, start_time, end_time>>

dispVars == <<video_boosters, validated_queue, round_robin_index, d_lock, d_stop,
              d_pc, d_proxy, d_video, d_i, d_incomplete, d_ret>>

valVars == <<proxy_queue, checked_count, validated_count, v_lock, v_stop,
             v_pc, v_proxy, v_tmp>>

obsVars == <<hit_time, ever_done, sel_log, probes_ok, seeded>>

\* the monitor's locals and the latest get_progress() it made
snapVars == <<m_current, m_read, m_progress, m_seen, m_again>>

\* observations of completion stamps and of dequeues after stop()
ghostVars == <<stamps, d_after, v_after>>

sigVars == <<shutdown_requested, s_handler, s_original, exited, exit_status>>

mainVars == <<bv_ids, b_pc, total_proxies, video_idx, increment_target,
              initial_view_count, b_current, last_check_time, target_reached,
              proxy_index, successful_videos, failed_videos, info_failed,
              fed_for>>

poolVars == <<b_proxy_queue, b_validated_queue, stop_event, b_checked_count,
              b_validated_count, successful_hits, proxy_cooldown,
              proxy_cooldown_lock>>

threadVars == <<bt_pc, bt_proxy>>

scriptVars == <<sigVars, mainVars, poolVars, threadVars>>

\* the job locks and the threads' positions inside the locked blocks
lockVars == <<j_lock, u_tmp, m_pc, true_calls>>

restVars == <<snapVars, ghostVars, scriptVars, lockVars>>

\* everything of executor.py
execVars == <<jobVars, dispVars, valVars, m_done, obsVars, snapVars, ghostVars,
              lockVars>>

vars == <<now, jobVars, dispVars, valVars, m_done, obsVars, restVars>>

\* ------------------------------------------------------------------ helpers

\* dict.get(key, default)
Get(tbl, key, default) == IF key \in DOMAIN tbl THEN tbl[key] ELSE default

\* dict[key] = value
Put(tbl, key, value) ==
    [k \in DOMAIN tbl \cup {key} |-> IF k = key THEN value ELSE tbl[k]]

EmptyDict == [k \in {} |-> 0]

Range(s) == {s[i] : i \in 1..Len(s)}

\* The sequences over S of length at most n.
SeqsUpTo(S, n) == UNION {[1..k -> S] : k \in 0..n}

\* ------------------------------------------------------------------ VideoBooster

\* can_use_proxy() with > for >=
can_use_proxy_strict(j, p) == (now - Get(proxy_cooldowns[j], p, 0)) > cooldown[j]

\* can_use_proxy(): now - proxy_cooldowns.get(proxy, 0) >= cooldown
can_use_proxy(j, p) == (now - Get(proxy_cooldowns[j], p, 0)) >= cooldown[j]

\* use_proxy() stamping a table all jobs share (a class-level dict)
StampShared(tbl, j, p, t) == [k \in DOMAIN tbl |-> Put(tbl[k], p, t)]

\* use_proxy(), the commit under the lock: self.proxy_cooldowns[proxy] = now
StampCooldown(tbl, j, p, t) == [tbl EXCEPT ![j] = Put(tbl[j], p, t)]

\* use_proxy(), the commit under the lock: self.hits += 1
CountHit(h, j) == [h EXCEPT ![j] = h[j] + 1]

\* use_proxy() counting its own hit as a view
use_proxy_commit_viewed(j, p) ==
    /\ hits' = CountHit(hits, j)
    /\ proxy_cooldowns' = StampCooldown(proxy_cooldowns, j, p, now)
    /\ hit_time' = [hit_time EXCEPT ![j] = Put(hit_time[j], p, now)]
    /\ current_view' = [current_view EXCEPT ![j] = @ + 1]
    /\ UNCHANGED <<initial_view, target_increment, cooldown, completed,
                   start_time, end_time>>

\* use_proxy() after a request that succeeded
use_proxy_commit(j, p) ==
    /\ hits' = CountHit(hits, j)
    /\ proxy_cooldowns' = StampCooldown(proxy_cooldowns, j, p, now)
    /\ hit_time' = [hit_time EXCEPT ![j] = Put(hit_time[j], p, now)]
    /\ UNCHANGED <<initial_view, target_increment, cooldown, current_view,
                   completed, start_time, end_time>>

\* is_complete() with > for >=
is_done_strict(j) == (current_view[j] - initial_view[j]) > target_increment[j]

\* is_complete(): is_done
is_done(j) == (current_view[j] - initial_view[j]) >= target_increment[j]

\* is_complete(): the value returned
is_complete_ret(j) == is_done(j)

\* is_complete() assigning the flag from is_done on every call
completed_recomputed(j) == is_done(j)

\* is_complete(): self.completed after the call
completed_after(j) == completed[j] \/ is_done(j)

\* is_complete() stamping whenever is_done, without `and not self.completed`
stamps_always(j) == is_done(j)

\* is_complete(): if is_done and not self.completed
stamps_now(j) == is_done(j) /\ ~completed[j]

\* is_complete(): self.end_time after the call
end_time_after(j) == IF stamps_now(j) THEN now ELSE end_time[j]

\* is_complete(), the whole locked block; the caller keeps is_complete_ret(j)
is_complete(j) ==
    /\ completed' = [completed EXCEPT ![j] = completed_after(j)]
    /\ end_time' = [end_time EXCEPT ![j] = end_time_after(j)]
    /\ ever_done' = [ever_done EXCEPT ![j] = @ \/ is_complete_ret(j)]
    /\ stamps' = [stamps EXCEPT
                    ![j] = IF stamps_now(j) /\ @ < 2 THEN @ + 1 ELSE @]
    /\ UNCHANGED <<initial_view, target_increment, cooldown, current_view,
                   hits, proxy_cooldowns, start_time, hit_time>>

\* update_view_count() keeping the largest view count seen
view_after_largest(j, v) == IF v > current_view[j] THEN v ELSE current_view[j]

\* update_view_count(): the value stored when the read returned v
view_after(j, v) == v

\* get_progress() measuring a completed job against the clock
elapsed_running(j) ==
    IF completed[j] THEN now - start_time[j] ELSE 0

\* get_progress(): elapsed. end_time is a datetime or None, so `if
\* self.end_time` is `end_time is not None`.
elapsed(j) ==
    IF end_time[j] # NoTime
       THEN end_time[j] - start_time[j]
       ELSE IF completed[j] THEN now - start_time[j] ELSE 0

\* get_progress()
get_progress(j) ==
    [ bv_id |-> j,
      current |-> current_view[j],
      initial |-> initial_view[j],
      increment |-> current_view[j] - initial_view[j],
      target |-> target_increment[j],
      hits |-> hits[j],
      completed |-> completed[j],
      elapsed |-> elapsed(j) ]

\* every field of the job object
JobFields(j) ==
    [ initial_view |-> initial_view[j],
      target_increment |-> target_increment[j],
      cooldown |-> cooldown[j],
      current_view |-> current_view[j],
      hits |-> hits[j],
      proxy_cooldowns |-> proxy_cooldowns[j],
      completed |-> completed[j],
      start_time |-> start_time[j],
      end_time |-> end_time[j] ]

\* ------------------------------------------------------------------ the clock

Tick ==
    /\ now < StartTime + MaxTicks
    /\ now' = now + 1
    /\ UNCHANGED <<restVars, jobVars, dispVars, valVars, m_done, obsVars>>

\* ------------------------------------------------------------------ the monitor

\* update_view_count(): the read succeeded with v
M_update(j) ==
    /\ j \in Range(video_boosters)
    /\ \E v \in 0..MaxView :
          /\ current_view' = [current_view EXCEPT ![j] = view_after(j, v)]
          /\ m_read' = [m_read EXCEPT ![j] = v]
    /\ m_current' = [m_current EXCEPT ![j] = current_view'[j]]
    /\ UNCHANGED <<now, scriptVars, lockVars,
                   initial_view, target_increment, cooldown, hits,
                   proxy_cooldowns, completed, start_time, end_time>>
    /\ UNCHANGED <<dispVars, valVars, m_done, obsVars, m_progress, m_seen,
                   m_again, ghostVars>>

\* update_view_count(): the read raised; the except branch returns current_view
M_update_fail(j) ==
    /\ j \in Range(video_boosters)
    /\ m_current' = [m_current EXCEPT ![j] = current_view[j]]
    /\ UNCHANGED <<now, scriptVars, lockVars,
                   jobVars, dispVars, valVars, m_done, obsVars, m_read,
                   m_progress, m_seen, m_again, ghostVars>>

\* the monitor calls is_complete()
M_is_complete(j) ==
    /\ j \in Range(video_boosters)
    /\ is_complete(j)
    /\ m_done' = [m_done EXCEPT ![j] = is_complete_ret(j)]
    /\ UNCHANGED <<now, scriptVars, lockVars,
                   snapVars, d_after, v_after, dispVars, valVars, sel_log,
                   probes_ok, seeded>>

\* the monitor calls get_progress() and keeps the snapshot
M_get_progress(j) ==
    /\ j \in Range(video_boosters)
    /\ m_progress' = [m_progress EXCEPT ![j] = get_progress(j)]
    /\ m_seen' = [m_seen EXCEPT ![j] = JobFields(j)]
    /\ m_again' = [m_again EXCEPT ![j] = (m_seen[j] = JobFields(j))]
    /\ UNCHANGED <<now, scriptVars, lockVars,
                   jobVars, dispVars, valVars, m_done, obsVars, m_current,
                   m_read, ghostVars>>

\* ------------------------------------------------------------------ JobDispatcher

\* a `with self.lock:` that excludes nobody
LockIgnored(owner) == TRUE

\* `with self.lock:` can be entered
LockFree(owner) == owner = NoThread

\* the proxy put back only when use_proxy() returned true
RequeueOnSuccess(q, p, ok) == IF ok THEN Append(q, p) ELSE q

\* validated_queue.put(proxy) at the end of an iteration; ok is what
\* use_proxy() returned
Requeue(q, p, ok) == Append(q, p)

\* _get_next_video() clamping the index to the list instead of wrapping it
PickIndex_clamped(rr, n) == IF rr >= n THEN n - 1 ELSE rr

\* _get_next_video(): self.round_robin_index % len(incomplete_videos)
PickIndex(rr, n) == rr % n

\* _get_next_video() without the increment
SameIndex(i) == i

\* _get_next_video(): self.round_robin_index += 1
NextIndex(i) == i + 1

\* _get_next_video() without the filter
KeepAll(lst, j, done) == Append(lst, j)

\* _get_next_video(): the list comprehension keeps v when not v.is_complete()
KeepIncomplete(lst, j, done) == IF done THEN lst ELSE Append(lst, j)

\* The latest selections: with the one being made next, a window of as many
\* selections as the list has videos.
Logged(log, e) ==
    LET l == Append(log, e)
    IN  IF Len(l) >= Len(video_boosters) THEN Tail(l) ELSE l

\* the locals of a worker between two iterations
D_reset(w) ==
    /\ d_proxy' = [d_proxy EXCEPT ![w] = NoProxy]
    /\ d_video' = [d_video EXCEPT ![w] = NoVideo]
    /\ d_ret' = [d_ret EXCEPT ![w] = FALSE]

\* dispatch_worker() looping on `while True`
D_loop_forever(w) ==
    /\ d_pc[w] = "loop"
    /\ d_pc' = [d_pc EXCEPT ![w] = "get"]
    /\ UNCHANGED <<now, restVars, jobVars, valVars, m_done, obsVars>>
    /\ UNCHANGED <<video_boosters, validated_queue, round_robin_index, d_lock,
                   d_stop, d_proxy, d_video, d_i, d_incomplete, d_ret>>

\* dispatch_worker(): while not self.stop_event.is_set()
D_loop(w) ==
    /\ d_pc[w] = "loop"
    /\ d_pc' = [d_pc EXCEPT ![w] = IF d_stop THEN "done" ELSE "get"]
    /\ UNCHANGED <<now, restVars, jobVars, valVars, m_done, obsVars>>
    /\ UNCHANGED <<video_boosters, validated_queue, round_robin_index, d_lock,
                   d_stop, d_proxy, d_video, d_i, d_incomplete, d_ret>>

\* dispatch_worker() taking its proxy from the raw channel
D_get_raw(w) ==
    /\ d_pc[w] = "get"
    /\ proxy_queue # <<>>
    /\ d_proxy' = [d_proxy EXCEPT ![w] = Head(proxy_queue)]
    /\ proxy_queue' = Tail(proxy_queue)
    /\ d_pc' = [d_pc EXCEPT ![w] = "select"]
    /\ d_after' = [d_after EXCEPT ![w] = IF d_stop /\ @ < 2 THEN @ + 1 ELSE @]
    /\ UNCHANGED <<now, scriptVars, lockVars,
                   snapVars, stamps, v_after, jobVars, m_done, obsVars>>
    /\ UNCHANGED <<checked_count, validated_count, v_lock, v_stop, v_pc,
                   v_proxy, v_tmp>>
    /\ UNCHANGED <<video_boosters, validated_queue, round_robin_index, d_lock,
                   d_stop, d_video, d_i, d_incomplete, d_ret>>

\* dispatch_worker(): proxy = self.validated_queue.get(timeout=1)
D_get(w) ==
    /\ d_pc[w] = "get"
    /\ validated_queue # <<>>
    /\ d_proxy' = [d_proxy EXCEPT ![w] = Head(validated_queue)]
    /\ validated_queue' = Tail(validated_queue)
    /\ d_pc' = [d_pc EXCEPT ![w] = "select"]
    /\ d_after' = [d_after EXCEPT ![w] = IF d_stop /\ @ < 2 THEN @ + 1 ELSE @]
    /\ UNCHANGED <<now, scriptVars, lockVars,
                   snapVars, stamps, v_after, jobVars, valVars, m_done,
                   obsVars>>
    /\ UNCHANGED <<video_boosters, round_robin_index, d_lock, d_stop, d_video,
                   d_i, d_incomplete, d_ret>>

\* dispatch_worker(): except Empty: continue
D_empty(w) ==
    /\ d_pc[w] = "get"
    /\ validated_queue = <<>>
    /\ d_pc' = [d_pc EXCEPT ![w] = "loop"]
    /\ UNCHANGED <<now, restVars, jobVars, valVars, m_done, obsVars>>
    /\ UNCHANGED <<video_boosters, validated_queue, round_robin_index, d_lock,
                   d_stop, d_proxy, d_video, d_i, d_incomplete, d_ret>>

\* _get_next_video(): with self.lock
D_acquire(w) ==
    /\ d_pc[w] = "select"
    /\ LockFree(d_lock)
    /\ d_lock' = w
    /\ d_i' = [d_i EXCEPT ![w] = 1]
    /\ d_incomplete' = [d_incomplete EXCEPT ![w] = <<>>]
    /\ d_pc' = [d_pc EXCEPT ![w] = "scan"]
    /\ UNCHANGED <<now, restVars, jobVars, valVars, m_done, obsVars>>
    /\ UNCHANGED <<video_boosters, validated_queue, round_robin_index, d_stop,
                   d_proxy, d_video, d_ret>>

\* _get_next_video(): one `if not v.is_complete()` of the list comprehension
D_scan(w) ==
    /\ d_pc[w] = "scan"
    /\ d_i[w] <= Len(video_boosters)
    /\ LET j == video_boosters[d_i[w]]
       IN  /\ is_complete(j)
           /\ d_incomplete' =
                 [d_incomplete EXCEPT
                    ![w] = KeepIncomplete(@, j, is_complete_ret(j))]
    /\ d_i' = [d_i EXCEPT ![w] = @ + 1]
    /\ UNCHANGED <<now, scriptVars, lockVars,
                   snapVars, d_after, v_after, valVars, m_done, sel_log,
                   probes_ok, seeded>>
    /\ UNCHANGED <<video_boosters, validated_queue, round_robin_index, d_lock,
                   d_stop, d_pc, d_proxy, d_video, d_ret>>

\* _get_next_video() falling back to the first video when none is incomplete
D_pick_none_first(w) ==
    /\ d_pc[w] = "scan"
    /\ d_i[w] > Len(video_boosters)
    /\ d_incomplete[w] = <<>>
    /\ d_lock' = NoThread
    /\ d_video' = [d_video EXCEPT ![w] = video_boosters[1]]
    /\ d_pc' = [d_pc EXCEPT ![w] = "use"]
    /\ d_i' = [d_i EXCEPT ![w] = 0]
    /\ UNCHANGED <<now, restVars, jobVars, valVars, m_done, obsVars>>
    /\ UNCHANGED <<video_boosters, validated_queue, round_robin_index, d_stop,
                   d_proxy, d_incomplete, d_ret>>

\* _get_next_video(): if not incomplete_videos: return None
D_pick_none(w) ==
    /\ d_pc[w] = "scan"
    /\ d_i[w] > Len(video_boosters)
    /\ d_incomplete[w] = <<>>
    /\ d_lock' = NoThread
    /\ d_video' = [d_video EXCEPT ![w] = NoVideo]
    /\ d_pc' = [d_pc EXCEPT ![w] = "put_none"]
    /\ d_i' = [d_i EXCEPT ![w] = 0]
    /\ UNCHANGED <<now, restVars, jobVars, valVars, m_done, obsVars>>
    /\ UNCHANGED <<video_boosters, validated_queue, round_robin_index, d_stop,
                   d_proxy, d_incomplete, d_ret>>

\* _get_next_video(): the round-robin pick among incomplete_videos
D_pick(w) ==
    /\ d_pc[w] = "scan"
    /\ d_i[w] > Len(video_boosters)
    /\ d_incomplete[w] # <<>>
    /\ LET idx == PickIndex(round_robin_index, Len(d_incomplete[w]))
           video == d_incomplete[w][idx + 1]
       IN  /\ round_robin_index' = NextIndex(idx)
           /\ d_video' = [d_video EXCEPT ![w] = video]
           /\ sel_log' = Logged(sel_log,
                                [job |-> video, among |-> d_incomplete[w]])
    /\ d_lock' = NoThread
    /\ d_pc' = [d_pc EXCEPT ![w] = "use"]
    /\ d_i' = [d_i EXCEPT ![w] = 0]
    /\ d_incomplete' = [d_incomplete EXCEPT ![w] = <<>>]
    /\ UNCHANGED <<now, restVars, jobVars, valVars, m_done, hit_time, ever_done,
                   probes_ok, seeded>>
    /\ UNCHANGED <<video_boosters, validated_queue, d_stop, d_proxy, d_ret>>

\* dispatch_worker(): if video is None: put the proxy back, sleep, continue
D_put_none(w) ==
    /\ d_pc[w] = "put_none"
    /\ validated_queue' = Append(validated_queue, d_proxy[w])
    /\ D_reset(w)
    /\ d_pc' = [d_pc EXCEPT ![w] = "loop"]
    /\ UNCHANGED <<now, restVars, jobVars, valVars, m_done, obsVars>>
    /\ UNCHANGED <<video_boosters, round_robin_index, d_lock, d_stop, d_i,
                   d_incomplete>>

\* use_proxy(): if not self.can_use_proxy(proxy): return False
D_gate(w) ==
    /\ d_pc[w] = "use"
    /\ IF can_use_proxy(d_video[w], d_proxy[w])
          THEN /\ d_pc' = [d_pc EXCEPT ![w] = "post"]
               /\ UNCHANGED d_ret
          ELSE /\ d_pc' = [d_pc EXCEPT ![w] = "put"]
               /\ d_ret' = [d_ret EXCEPT ![w] = FALSE]
    /\ UNCHANGED <<now, restVars, jobVars, valVars, m_done, obsVars>>
    /\ UNCHANGED <<video_boosters, validated_queue, round_robin_index, d_lock,
                   d_stop, d_proxy, d_video, d_i, d_incomplete>>

\* use_proxy(): the request returned; commit under the lock; return True
D_post_ok(w) ==
    /\ d_pc[w] = "post"
    /\ use_proxy_commit(d_video[w], d_proxy[w])
    /\ d_ret' = [d_ret EXCEPT ![w] = TRUE]
    /\ d_pc' = [d_pc EXCEPT ![w] = "put"]
    /\ UNCHANGED <<now, restVars, valVars, m_done, ever_done, sel_log, probes_ok, seeded>>
    /\ UNCHANGED <<video_boosters, validated_queue, round_robin_index, d_lock,
                   d_stop, d_proxy, d_video, d_i, d_incomplete>>

\* use_proxy() stamping the cooldown before the request, so that a request
\* that raised leaves the stamp behind
D_post_fail_stamped(w) ==
    /\ d_pc[w] = "post"
    /\ proxy_cooldowns' =
          StampCooldown(proxy_cooldowns, d_video[w], d_proxy[w], now)
    /\ d_ret' = [d_ret EXCEPT ![w] = FALSE]
    /\ d_pc' = [d_pc EXCEPT ![w] = "put"]
    /\ UNCHANGED <<now, restVars, valVars, m_done, obsVars>>
    /\ UNCHANGED <<initial_view, target_increment, cooldown, current_view,
                   hits, completed, start_time, end_time>>
    /\ UNCHANGED <<video_boosters, validated_queue, round_robin_index, d_lock,
                   d_stop, d_proxy, d_video, d_i, d_incomplete>>

\* use_proxy(): the request raised; except: return False
D_post_fail(w) ==
    /\ d_pc[w] = "post"
    /\ d_ret' = [d_ret EXCEPT ![w] = FALSE]
    /\ d_pc' = [d_pc EXCEPT ![w] = "put"]
    /\ UNCHANGED <<now, restVars, jobVars, valVars, m_done, obsVars>>
    /\ UNCHANGED <<video_boosters, validated_queue, round_robin_index, d_lock,
                   d_stop, d_proxy, d_video, d_i, d_incomplete>>

\* dispatch_worker(): put the proxy back after use_proxy(), task_done()
D_put(w) ==
    /\ d_pc[w] = "put"
    /\ validated_queue' = Requeue(validated_queue, d_proxy[w], d_ret[w])
    /\ D_reset(w)
    /\ d_pc' = [d_pc EXCEPT ![w] = "loop"]
    /\ UNCHANGED <<now, restVars, jobVars, valVars, m_done, obsVars>>
    /\ UNCHANGED <<video_boosters, round_robin_index, d_lock, d_stop, d_i,
                   d_incomplete>>

\* JobDispatcher.stop()
D_stop ==
    /\ ~d_stop
    /\ d_stop' = TRUE
    /\ UNCHANGED <<now, restVars, jobVars, valVars, m_done, obsVars>>
    /\ UNCHANGED <<video_boosters, validated_queue, round_robin_index, d_lock,
                   d_pc, d_proxy, d_video, d_i, d_incomplete, d_ret>>

\* ------------------------------------------------------------------ ProxyValidator

\* validate_worker(): while not self.stop_event.is_set()
V_loop(w) ==
    /\ v_pc[w] = "loop"
    /\ v_pc' = [v_pc EXCEPT ![w] = IF v_stop THEN "done" ELSE "get"]
    /\ UNCHANGED <<now, restVars, jobVars, dispVars, m_done, obsVars>>
    /\ UNCHANGED <<proxy_queue, checked_count, validated_count, v_lock, v_stop,
                   v_proxy, v_tmp>>

\* validate_worker() probing the candidate without counting it as checked
V_get_uncounted(w) ==
    /\ v_pc[w] = "get"
    /\ proxy_queue # <<>>
    /\ v_proxy' = [v_proxy EXCEPT ![w] = Head(proxy_queue)]
    /\ proxy_queue' = Tail(proxy_queue)
    /\ v_pc' = [v_pc EXCEPT ![w] = "probe"]
    /\ v_after' = [v_after EXCEPT ![w] = IF v_stop /\ @ < 2 THEN @ + 1 ELSE @]
    /\ UNCHANGED <<now, scriptVars, lockVars,
                   snapVars, stamps, d_after, jobVars, dispVars, m_done,
                   obsVars>>
    /\ UNCHANGED <<checked_count, validated_count, v_lock, v_stop, v_tmp>>

\* validate_worker(): proxy = self.proxy_queue.get(timeout=1)
V_get(w) ==
    /\ v_pc[w] = "get"
    /\ proxy_queue # <<>>
    /\ v_proxy' = [v_proxy EXCEPT ![w] = Head(proxy_queue)]
    /\ proxy_queue' = Tail(proxy_queue)
    /\ v_pc' = [v_pc EXCEPT ![w] = "checked_load"]
    /\ v_after' = [v_after EXCEPT ![w] = IF v_stop /\ @ < 2 THEN @ + 1 ELSE @]
    /\ UNCHANGED <<now, scriptVars, lockVars,
                   snapVars, stamps, d_after, jobVars, dispVars, m_done,
                   obsVars>>
    /\ UNCHANGED <<checked_count, validated_count, v_lock, v_stop, v_tmp>>

\* validate_worker(): except Empty: continue
V_empty(w) ==
    /\ v_pc[w] = "get"
    /\ proxy_queue = <<>>
    /\ v_pc' = [v_pc EXCEPT ![w] = "loop"]
    /\ UNCHANGED <<now, restVars, jobVars, dispVars, m_done, obsVars>>
    /\ UNCHANGED <<proxy_queue, checked_count, validated_count, v_lock, v_stop,
                   v_proxy, v_tmp>>

\* with self.lock: self.checked_count += 1 (the lock is taken, the counter read)
V_checked_load(w) ==
    /\ v_pc[w] = "checked_load"
    /\ LockFree(v_lock)
    /\ v_lock' = w
    /\ v_tmp' = [v_tmp EXCEPT ![w] = checked_count]
    /\ v_pc' = [v_pc EXCEPT ![w] = "checked_store"]
    /\ UNCHANGED <<now, restVars, jobVars, dispVars, m_done, obsVars>>
    /\ UNCHANGED <<proxy_queue, checked_count, validated_count, v_stop, v_proxy>>

\* with self.lock: self.checked_count += 1 (the counter written, the lock released)
V_checked_store(w) ==
    /\ v_pc[w] = "checked_store"
    /\ checked_count' = v_tmp[w] + 1
    /\ v_lock' = NoThread
    /\ v_tmp' = [v_tmp EXCEPT ![w] = 0]
    /\ v_pc' = [v_pc EXCEPT ![w] = "probe"]
    /\ UNCHANGED <<now, restVars, jobVars, dispVars, m_done, obsVars>>
    /\ UNCHANGED <<proxy_queue, validated_count, v_stop, v_proxy>>

\* the probe returned: self.validated_queue.put(proxy)
V_probe_ok(w) ==
    /\ v_pc[w] = "probe"
    /\ validated_queue' = Append(validated_queue, v_proxy[w])
    /\ probes_ok' = probes_ok + 1
    /\ v_pc' = [v_pc EXCEPT ![w] = "validated_load"]
    /\ UNCHANGED <<now, restVars, jobVars, m_done, hit_time, ever_done, sel_log, seeded>>
    /\ UNCHANGED <<video_boosters, round_robin_index, d_lock, d_stop, d_pc,
                   d_proxy, d_video, d_i, d_incomplete, d_ret>>
    /\ UNCHANGED <<proxy_queue, checked_count, validated_count, v_lock, v_stop,
                   v_proxy, v_tmp>>

\* the probe raised and the candidate is put back into the raw channel
V_probe_fail_requeue(w) ==
    /\ v_pc[w] = "probe"
    /\ proxy_queue' = Append(proxy_queue, v_proxy[w])
    /\ v_proxy' = [v_proxy EXCEPT ![w] = NoProxy]
    /\ v_pc' = [v_pc EXCEPT ![w] = "loop"]
    /\ UNCHANGED <<now, restVars, jobVars, dispVars, m_done, obsVars>>
    /\ UNCHANGED <<checked_count, validated_count, v_lock, v_stop, v_tmp>>

\* the probe raised: except: pass; task_done()
V_probe_fail(w) ==
    /\ v_pc[w] = "probe"
    /\ v_proxy' = [v_proxy EXCEPT ![w] = NoProxy]
    /\ v_pc' = [v_pc EXCEPT ![w] = "loop"]
    /\ UNCHANGED <<now, restVars, jobVars, dispVars, m_done, obsVars>>
    /\ UNCHANGED <<proxy_queue, checked_count, validated_count, v_lock, v_stop,
                   v_tmp>>

\* with self.lock: self.validated_count += 1 (the lock is taken, the counter read)
V_validated_load(w) ==
    /\ v_pc[w] = "validated_load"
    /\ LockFree(v_lock)
    /\ v_lock' = w
    /\ v_tmp' = [v_tmp EXCEPT ![w] = validated_count]
    /\ v_pc' = [v_pc EXCEPT ![w] = "validated_store"]
    /\ UNCHANGED <<now, restVars, jobVars, dispVars, m_done, obsVars>>
    /\ UNCHANGED <<proxy_queue, checked_count, validated_count, v_stop, v_proxy>>

\* with self.lock: self.validated_count += 1 (written, released); task_done()
V_validated_store(w) ==
    /\ v_pc[w] = "validated_store"
    /\ validated_count' = v_tmp[w] + 1
    /\ v_lock' = NoThread
    /\ v_tmp' = [v_tmp EXCEPT ![w] = 0]
    /\ v_proxy' = [v_proxy EXCEPT ![w] = NoProxy]
    /\ v_pc' = [v_pc EXCEPT ![w] = "loop"]
    /\ UNCHANGED <<now, restVars, jobVars, dispVars, m_done, obsVars>>
    /\ UNCHANGED <<proxy_queue, checked_count, v_stop>>

\* ProxyValidator.stop()
V_stop ==
    /\ ~v_stop
    /\ v_stop' = TRUE
    /\ UNCHANGED <<now, restVars, jobVars, dispVars, m_done, obsVars>>
    /\ UNCHANGED <<proxy_queue, checked_count, validated_count, v_lock, v_pc,
                   v_proxy, v_tmp>>

\* get_stats()
get_stats == [checked |-> checked_count, validated |-> validated_count]

\* ------------------------------------------------------------------ construction

\* The fields of a job that is in no list.
IdleConfig == [initial |-> 0, target |-> 0, cooldown |-> Cooldown]

\* VideoBooster.__init__ for the videos of the list, each with a configuration
InitJobs(boosters, configs) ==
    /\ \E cfg \in [AllJobs -> configs \cup {IdleConfig}] :
          /\ \A j \in AllJobs \ Range(boosters) :
                cfg[j] = IdleConfig
          /\ \A j \in Range(boosters) : cfg[j] \in configs
          /\ initial_view = [j \in AllJobs |-> cfg[j].initial]
          /\ target_increment = [j \in AllJobs |-> cfg[j].target]
          /\ cooldown = [j \in AllJobs |-> cfg[j].cooldown]
    /\ current_view = initial_view
    /\ hits = [j \in AllJobs |-> 0]
    /\ proxy_cooldowns = [j \in AllJobs |-> EmptyDict]
    /\ completed = [j \in AllJobs |-> FALSE]
    /\ start_time = [j \in AllJobs |-> now]
    /\ end_time = [j \in AllJobs |-> NoTime]
    /\ m_done = [j \in AllJobs |-> FALSE]
    /\ m_current = initial_view
    /\ m_read = initial_view
    /\ m_progress = [j \in AllJobs |-> NoProgress]
    /\ m_seen = [j \in AllJobs |-> NoProgress]
    /\ m_again = [j \in AllJobs |-> FALSE]
    /\ stamps = [j \in AllJobs |-> 0]
    /\ hit_time = [j \in AllJobs |-> EmptyDict]
    /\ ever_done = [j \in AllJobs |-> FALSE]
    /\ j_lock = [j \in AllJobs |-> NoThread]
    /\ m_pc = [j \in AllJobs |-> "idle"]
    /\ true_calls = [j \in AllJobs |-> 0]

\* JobDispatcher.__init__ and start()
InitDispatcher(boosters) ==
    /\ video_boosters = boosters
    /\ round_robin_index = 0
    /\ d_lock = NoThread
    /\ d_stop = FALSE
    /\ d_pc = [w \in DWorkers |-> "loop"]
    /\ d_proxy = [w \in DWorkers |-> NoProxy]
    /\ d_video = [w \in DWorkers |-> NoVideo]
    /\ d_i = [w \in DWorkers |-> 0]
    /\ d_incomplete = [w \in DWorkers |-> <<>>]
    /\ d_ret = [w \in DWorkers |-> FALSE]
    /\ sel_log = <<>>
    /\ d_after = [w \in DWorkers |-> 0]
    /\ u_tmp = [w \in DWorkers |-> 0]

\* The dispatcher has been stopped and its workers have exited.
InitDispatcherStopped(boosters) ==
    /\ video_boosters = boosters
    /\ round_robin_index = 0
    /\ d_lock = NoThread
    /\ d_stop = TRUE
    /\ d_pc = [w \in DWorkers |-> "done"]
    /\ d_proxy = [w \in DWorkers |-> NoProxy]
    /\ d_video = [w \in DWorkers |-> NoVideo]
    /\ d_i = [w \in DWorkers |-> 0]
    /\ d_incomplete = [w \in DWorkers |-> <<>>]
    /\ d_ret = [w \in DWorkers |-> FALSE]
    /\ sel_log = <<>>
    /\ d_after = [w \in DWorkers |-> 0]
    /\ u_tmp = [w \in DWorkers |-> 0]

\* ProxyValidator.__init__ and start(), the raw channel seeded with raw
InitValidator(raw) ==
    /\ proxy_queue = raw
    /\ seeded = Len(raw)
    /\ validated_queue = <<>>
    /\ checked_count = 0
    /\ validated_count = 0
    /\ probes_ok = 0
    /\ v_lock = NoThread
    /\ v_stop = FALSE
    /\ v_pc = [w \in VWorkers |-> "loop"]
    /\ v_proxy = [w \in VWorkers |-> NoProxy]
    /\ v_tmp = [w \in VWorkers |-> 0]
    /\ v_after = [w \in VWorkers |-> 0]

\* The validator has validated every candidate of pool and been stopped.
InitValidated(pool) ==
    /\ proxy_queue = <<>>
    /\ seeded = Len(pool)
    /\ validated_queue = pool
    /\ checked_count = Len(pool)
    /\ validated_count = Len(pool)
    /\ probes_ok = Len(pool)
    /\ v_lock = NoThread
    /\ v_stop = TRUE
    /\ v_pc = [w \in VWorkers |-> "done"]
    /\ v_proxy = [w \in VWorkers |-> NoProxy]
    /\ v_tmp = [w \in VWorkers |-> 0]
    /\ v_after = [w \in VWorkers |-> 0]

\* ------------------------------------------------------------------ callers

\* A thread calls use_proxy(p) on job j (as a dispatcher worker does with the
\* video and the proxy it holds).
T_call(w, j, p) ==
    /\ d_pc[w] = "loop"
    /\ j \in Range(video_boosters)
    /\ d_video' = [d_video EXCEPT ![w] = j]
    /\ d_proxy' = [d_proxy EXCEPT ![w] = p]
    /\ d_pc' = [d_pc EXCEPT ![w] = "use"]
    /\ UNCHANGED <<now, restVars, jobVars, valVars, m_done, obsVars>>
    /\ UNCHANGED <<video_boosters, validated_queue, round_robin_index, d_lock,
                   d_stop, d_i, d_incomplete, d_ret>>

\* use_proxy() has returned d_ret[w] to the thread
T_return(w) ==
    /\ d_pc[w] = "put"
    /\ D_reset(w)
    /\ d_pc' = [d_pc EXCEPT ![w] = "loop"]
    /\ UNCHANGED <<now, restVars, jobVars, valVars, m_done, obsVars>>
    /\ UNCHANGED <<video_boosters, validated_queue, round_robin_index, d_lock,
                   d_stop, d_i, d_incomplete>>

\* ------------------------------------------------------------------ the job lock, step by step

\* The steps below refine the locked blocks of VideoBooster: the lock is
\* taken, each statement inside the block is a step, the lock is released.
\* A block that only reads (can_use_proxy, is_complete) stays one step,
\* taken when the lock is free.

\* what a step on the job lock leaves alone
lockFrame == <<now, snapVars, ghostVars, scriptVars, valVars, m_done>>

\* use_proxy() taking the lock for the cooldown check and keeping it over
\* the request
L_gate_holding(w) ==
    /\ d_pc[w] = "use"
    /\ LockFree(j_lock[d_video[w]])
    /\ IF can_use_proxy(d_video[w], d_proxy[w])
          THEN /\ d_pc' = [d_pc EXCEPT ![w] = "post"]
               /\ j_lock' = [j_lock EXCEPT ![d_video[w]] = w]
               /\ UNCHANGED d_ret
          ELSE /\ d_pc' = [d_pc EXCEPT ![w] = "put"]
               /\ d_ret' = [d_ret EXCEPT ![w] = FALSE]
               /\ UNCHANGED j_lock
    /\ UNCHANGED <<lockFrame, jobVars, obsVars, u_tmp, m_pc, true_calls>>
    /\ UNCHANGED <<video_boosters, validated_queue, round_robin_index, d_lock,
                   d_stop, d_proxy, d_video, d_i, d_incomplete>>

\* use_proxy(): can_use_proxy() inside `with self.lock:`
L_gate(w) ==
    /\ d_pc[w] = "use"
    /\ LockFree(j_lock[d_video[w]])
    /\ D_gate(w)

\* use_proxy(): requests.post(...) returned
L_post_ok(w) ==
    /\ d_pc[w] = "post"
    /\ d_pc' = [d_pc EXCEPT ![w] = "commit"]
    /\ UNCHANGED <<now, restVars, jobVars, valVars, m_done, obsVars>>
    /\ UNCHANGED <<video_boosters, validated_queue, round_robin_index, d_lock,
                   d_stop, d_proxy, d_video, d_i, d_incomplete, d_ret>>

\* use_proxy() committing without the lock
L_commit_load_unlocked(w) ==
    /\ d_pc[w] = "commit"
    /\ j_lock' = [j_lock EXCEPT ![d_video[w]] = w]
    /\ u_tmp' = [u_tmp EXCEPT ![w] = hits[d_video[w]]]
    /\ d_pc' = [d_pc EXCEPT ![w] = "commit_hits"]
    /\ UNCHANGED <<lockFrame, jobVars, obsVars, m_pc, true_calls>>
    /\ UNCHANGED <<video_boosters, validated_queue, round_robin_index, d_lock,
                   d_stop, d_proxy, d_video, d_i, d_incomplete, d_ret>>

\* use_proxy(): with self.lock: self.hits += 1 (the lock is taken, hits read)
L_commit_load(w) ==
    /\ d_pc[w] = "commit"
    /\ LockFree(j_lock[d_video[w]])
    /\ j_lock' = [j_lock EXCEPT ![d_video[w]] = w]
    /\ u_tmp' = [u_tmp EXCEPT ![w] = hits[d_video[w]]]
    /\ d_pc' = [d_pc EXCEPT ![w] = "commit_hits"]
    /\ UNCHANGED <<lockFrame, jobVars, obsVars, m_pc, true_calls>>
    /\ UNCHANGED <<video_boosters, validated_queue, round_robin_index, d_lock,
                   d_stop, d_proxy, d_video, d_i, d_incomplete, d_ret>>

\* use_proxy(): self.hits += 1 (hits written)
L_commit_hits(w) ==
    /\ d_pc[w] = "commit_hits"
    /\ hits' = [hits EXCEPT ![d_video[w]] = u_tmp[w] + 1]
    /\ u_tmp' = [u_tmp EXCEPT ![w] = 0]
    /\ d_pc' = [d_pc EXCEPT ![w] = "commit_stamp"]
    /\ UNCHANGED <<lockFrame, obsVars, j_lock, m_pc, true_calls>>
    /\ UNCHANGED <<initial_view, target_increment, cooldown, current_view,
                   proxy_cooldowns, completed, start_time, end_time>>
    /\ UNCHANGED <<video_boosters, validated_queue, round_robin_index, d_lock,
                   d_stop, d_proxy, d_video, d_i, d_incomplete, d_ret>>

\* use_proxy() returning from the commit block with the lock still held
\* (self.lock.acquire() with no release)
L_commit_stamp_keep(w) ==
    /\ d_pc[w] = "commit_stamp"
    /\ proxy_cooldowns' =
          StampCooldown(proxy_cooldowns, d_video[w], d_proxy[w], now)
    /\ hit_time' = [hit_time EXCEPT
                      ![d_video[w]] = Put(hit_time[d_video[w]], d_proxy[w], now)]
    /\ d_ret' = [d_ret EXCEPT ![w] = TRUE]
    /\ true_calls' = [true_calls EXCEPT ![d_video[w]] = @ + 1]
    /\ d_pc' = [d_pc EXCEPT ![w] = "put"]
    /\ UNCHANGED <<lockFrame, ever_done, sel_log, probes_ok, seeded, u_tmp, m_pc,
                   j_lock>>
    /\ UNCHANGED <<initial_view, target_increment, cooldown, current_view,
                   hits, completed, start_time, end_time>>
    /\ UNCHANGED <<video_boosters, validated_queue, round_robin_index, d_lock,
                   d_stop, d_proxy, d_video, d_i, d_incomplete>>

\* use_proxy(): self.proxy_cooldowns[proxy] = now; the lock is released;
\* return True
L_commit_stamp(w) ==
    /\ d_pc[w] = "commit_stamp"
    /\ proxy_cooldowns' =
          StampCooldown(proxy_cooldowns, d_video[w], d_proxy[w], now)
    /\ hit_time' = [hit_time EXCEPT
                      ![d_video[w]] = Put(hit_time[d_video[w]], d_proxy[w], now)]
    /\ j_lock' = [j_lock EXCEPT ![d_video[w]] = NoThread]
    /\ d_ret' = [d_ret EXCEPT ![w] = TRUE]
    /\ true_calls' = [true_calls EXCEPT ![d_video[w]] = @ + 1]
    /\ d_pc' = [d_pc EXCEPT ![w] = "put"]
    /\ UNCHANGED <<lockFrame, ever_done, sel_log, probes_ok, seeded, u_tmp, m_pc>>
    /\ UNCHANGED <<initial_view, target_increment, cooldown, current_view,
                   hits, completed, start_time, end_time>>
    /\ UNCHANGED <<video_boosters, validated_queue, round_robin_index, d_lock,
                   d_stop, d_proxy, d_video, d_i, d_incomplete>>

\* _get_next_video(): v.is_complete() inside `with self.lock:` of the video
L_scan(w) ==
    /\ d_pc[w] = "scan"
    /\ d_i[w] <= Len(video_boosters)
    /\ LockFree(j_lock[video_boosters[d_i[w]]])
    /\ D_scan(w)

\* update_view_count(): requests.get(...) is sent
L_update_begin(j) ==
    /\ j \in Range(video_boosters)
    /\ m_pc[j] = "idle"
    /\ m_pc' = [m_pc EXCEPT ![j] = "req"]
    /\ UNCHANGED <<lockFrame, jobVars, dispVars, obsVars, j_lock, u_tmp,
                   true_calls>>

\* update_view_count(): the response v arrived; with self.lock
L_update_lock(j) ==
    /\ m_pc[j] = "req"
    /\ LockFree(j_lock[j])
    /\ \E v \in 0..MaxView : m_read' = [m_read EXCEPT ![j] = v]
    /\ j_lock' = [j_lock EXCEPT ![j] = Monitor]
    /\ m_pc' = [m_pc EXCEPT ![j] = "store"]
    /\ UNCHANGED <<now, ghostVars, scriptVars, valVars, m_done, jobVars,
                   dispVars, obsVars, u_tmp, true_calls>>
    /\ UNCHANGED <<m_current, m_progress, m_seen, m_again>>

\* update_view_count(): self.current_view = response[...]; the lock is
\* released; return self.current_view
L_update_store(j) ==
    /\ m_pc[j] = "store"
    /\ current_view' = [current_view EXCEPT ![j] = view_after(j, m_read[j])]
    /\ m_current' = [m_current EXCEPT ![j] = current_view'[j]]
    /\ j_lock' = [j_lock EXCEPT ![j] = NoThread]
    /\ m_pc' = [m_pc EXCEPT ![j] = "idle"]
    /\ UNCHANGED <<now, ghostVars, scriptVars, valVars, m_done, dispVars,
                   obsVars, u_tmp, true_calls>>
    /\ UNCHANGED <<initial_view, target_increment, cooldown, hits,
                   proxy_cooldowns, completed, start_time, end_time>>
    /\ UNCHANGED <<m_read, m_progress, m_seen, m_again>>

\* update_view_count(): the request raised; except: return self.current_view
L_update_fail(j) ==
    /\ m_pc[j] = "req"
    /\ m_current' = [m_current EXCEPT ![j] = current_view[j]]
    /\ m_pc' = [m_pc EXCEPT ![j] = "idle"]
    /\ UNCHANGED <<now, ghostVars, scriptVars, valVars, m_done, jobVars,
                   dispVars, obsVars, j_lock, u_tmp, true_calls>>
    /\ UNCHANGED <<m_read, m_progress, m_seen, m_again>>

\* one step of a thread that runs dispatch_worker(), the job lock refined
dispatch_worker_locked(w) ==
    \/ D_loop(w) \/ D_get(w) \/ D_empty(w)
    \/ D_acquire(w) \/ L_scan(w) \/ D_pick_none(w) \/ D_pick(w)
    \/ D_put_none(w) \/ L_gate(w) \/ L_post_ok(w) \/ D_post_fail(w)
    \/ L_commit_load(w) \/ L_commit_hits(w) \/ L_commit_stamp(w)
    \/ D_put(w)

\* one step of the monitor in update_view_count(), the job lock refined
update_view_count_locked(j) ==
    \/ L_update_begin(j) \/ L_update_lock(j) \/ L_update_store(j)
    \/ L_update_fail(j)

\* ------------------------------------------------------------------ ShutdownHandler

\* _original_sigint = None, as __init__ leaves it
NoHandler == "None"

\* Python's signal.default_int_handler, the handler of SIGINT when the
\* interpreter starts
DefaultHandler == "default_int_handler"

\* the bound method self._handle_signal
OwnHandler == "_handle_signal"

\* signal.SIG_DFL, the default disposition of the operating system: SIGINT
\* ends the process
SigDfl == "SIG_DFL"

\* signal.SIG_IGN: SIGINT is discarded, no step is taken
SigIgn == "SIG_IGN"

\* the handlers SIGINT can have when install() is called the first time
PreviousHandlers == {DefaultHandler, SigDfl, SigIgn}

\* bool(handler), as `if self._original_sigint:` tests it: None is false,
\* signal.SIG_DFL is the enum member Handlers.SIG_DFL of value 0 and is
\* false, Handlers.SIG_IGN has value 1 and is true, a callable is true
Truthy(h) == h \notin {NoHandler, SigDfl}

\* SIGINT is handled by ShutdownHandler._handle_signal
s_installed == s_handler = OwnHandler

\* ShutdownHandler.is_shutdown_requested()
is_shutdown_requested == shutdown_requested

\* An exception raised in the main thread by a signal handler (SystemExit
\* from sys.exit(1), or KeyboardInterrupt) propagates from where the main
\* thread is: the bare `except: pass` of the view-count check and of the
\* final read catch it and the script goes on after the try statement;
\* anywhere else nothing catches it and the process ends with status.
RaiseInMain(status) ==
    IF b_pc = "check_req"
       THEN /\ b_pc' = "while"
            /\ last_check_time' = now
            /\ UNCHANGED <<exited, exit_status>>
       ELSE IF b_pc = "final_req"
               THEN /\ b_pc' = "summary"
                    /\ UNCHANGED <<last_check_time, exited, exit_status>>
               ELSE /\ exited' = TRUE
                    /\ exit_status' = status
                    /\ UNCHANGED <<b_pc, last_check_time>>

\* ShutdownHandler._handle_signal(), run in the main thread on SIGINT
S_handle_signal ==
    /\ ~exited
    /\ s_installed
    /\ IF shutdown_requested
          THEN /\ RaiseInMain(1)
               /\ UNCHANGED shutdown_requested
          ELSE /\ shutdown_requested' = TRUE
               /\ UNCHANGED <<b_pc, last_check_time, exited, exit_status>>
    /\ UNCHANGED <<now, execVars, poolVars, threadVars, s_handler,
                   s_original>>
    /\ UNCHANGED <<bv_ids, total_proxies, video_idx, increment_target,
                   initial_view_count, b_current, target_reached, proxy_index,
                   successful_videos, failed_videos, info_failed, fed_for>>

\* ShutdownHandler.install(): signal.signal() sets the handler and returns
\* the one that was in place, which is the handler's own method when
\* install() is called a second time
S_install ==
    /\ ~exited
    /\ s_original' = s_handler
    /\ s_handler' = OwnHandler
    /\ UNCHANGED <<now, execVars, mainVars, poolVars, threadVars,
                   shutdown_requested, exited, exit_status>>

\* uninstall(): the handler of SIGINT after the call; signal.signal() is
\* called only `if self._original_sigint`
handler_after_uninstall ==
    IF Truthy(s_original) THEN s_original ELSE s_handler

\* uninstall() that also clears the request
S_uninstall_reset ==
    /\ ~exited
    /\ s_handler' = handler_after_uninstall
    /\ shutdown_requested' = FALSE
    /\ UNCHANGED <<now, execVars, mainVars, poolVars, threadVars,
                   s_original, exited, exit_status>>

\* ShutdownHandler.uninstall(): if self._original_sigint: restore it
S_uninstall ==
    /\ ~exited
    /\ s_handler' = handler_after_uninstall
    /\ UNCHANGED <<now, execVars, mainVars, poolVars, threadVars,
                   shutdown_requested, s_original, exited, exit_status>>

\* SIGINT with signal.SIG_DFL: the operating system ends the process, no
\* Python code runs (status 130 as a shell reports it)
S_default_action ==
    /\ ~exited
    /\ s_handler = SigDfl
    /\ exited' = TRUE
    /\ exit_status' = 130
    /\ UNCHANGED <<now, execVars, mainVars, poolVars, threadVars,
                   shutdown_requested, s_handler, s_original>>

\* SIGINT with Python's default handler: KeyboardInterrupt in the main
\* thread; uncaught, it ends the process with status 130
S_default_int ==
    /\ ~exited
    /\ s_handler = DefaultHandler
    /\ RaiseInMain(130)
    /\ UNCHANGED <<now, execVars, poolVars, threadVars, s_handler,
                   s_original, shutdown_requested>>
    /\ UNCHANGED <<bv_ids, total_proxies, video_idx, increment_target,
                   initial_view_count, b_current, target_reached, proxy_index,
                   successful_videos, failed_videos, info_failed, fed_for>>

\* ------------------------------------------------------------------ booster.py, the main thread

Min(a, b) == IF a < b THEN a ELSE b

\* `if not total_proxies` testing for None, which a list never is
NoProxies_none(tp) == FALSE

\* if not total_proxies
NoProxies(tp) == Len(tp) = 0

\* the target test of the monitor loop forgetting the baseline
check_reached_absolute(cur) == cur >= increment_target

\* the monitor loop: current_increment >= increment_target
check_reached(cur) == cur - initial_view_count >= increment_target

\* where the for loop goes after the video of index i
NextVideoPc(i) == IF i < Len(bv_ids) THEN "info" ELSE "end"

\* the main thread is at pc and the process runs
MainAt(pc) == ~exited /\ b_pc = pc

\* the variables of the main thread other than its position
mainFrame == <<bv_ids, total_proxies, video_idx, increment_target, initial_view_count,
               b_current, last_check_time, target_reached, proxy_index,
               successful_videos, failed_videos, info_failed, fed_for>>

\* total_proxies = fetch_proxies_from_url / _from_file (a failure returns [])
B_fetch ==
    /\ MainAt("fetch")
    /\ \E tp \in {<<>>, <<"p1">>} : total_proxies' = tp
    /\ b_pc' = "check_empty"
    /\ UNCHANGED <<now, execVars, sigVars, poolVars, threadVars>>
    /\ UNCHANGED <<bv_ids, video_idx, increment_target, initial_view_count,
                   b_current, last_check_time, target_reached, proxy_index,
                   successful_videos, failed_videos, info_failed, fed_for>>

\* fetch_proxies_from_archive(): date has no strftime_format, the
\* AttributeError is raised outside the try and ends the script
B_fetch_raise ==
    /\ MainAt("fetch")
    /\ exited' = TRUE
    /\ exit_status' = 1
    /\ UNCHANGED <<now, execVars, mainVars, poolVars, threadVars,
                   shutdown_requested, s_handler, s_original>>

\* if not total_proxies: sys.exit(1)
B_check_empty ==
    /\ MainAt("check_empty")
    /\ IF NoProxies(total_proxies)
          THEN /\ exited' = TRUE
               /\ exit_status' = 1
               /\ UNCHANGED b_pc
          ELSE /\ b_pc' = "info"
               /\ UNCHANGED <<exited, exit_status>>
    /\ UNCHANGED <<now, execVars, poolVars, threadVars, shutdown_requested,
                   s_handler, s_original>>
    /\ UNCHANGED <<bv_ids, total_proxies, video_idx, increment_target,
                   initial_view_count, b_current, last_check_time,
                   target_reached, proxy_index, successful_videos,
                   failed_videos, info_failed, fed_for>>

\* the info request of a video succeeded; the counters are reset
B_info_ok ==
    /\ MainAt("info")
    /\ \E v \in 0..MaxView : initial_view_count' = v
    /\ b_checked_count' = 0
    /\ b_validated_count' = 0
    /\ successful_hits' = 0
    /\ b_pc' = "start"
    /\ UNCHANGED <<now, execVars, sigVars, threadVars>>
    /\ UNCHANGED <<b_proxy_queue, b_validated_queue, stop_event, proxy_cooldown,
                   proxy_cooldown_lock>>
    /\ UNCHANGED <<bv_ids, total_proxies, video_idx, increment_target, b_current,
                   last_check_time, target_reached, proxy_index,
                   successful_videos, failed_videos, info_failed, fed_for>>

\* the info request failing and the script going on to start the pipeline
B_info_fail_through ==
    /\ MainAt("info")
    /\ failed_videos' = Append(failed_videos, bv_ids[video_idx])
    /\ info_failed' = info_failed \cup {video_idx}
    /\ b_pc' = "start"
    /\ UNCHANGED <<now, execVars, sigVars, poolVars, threadVars>>
    /\ UNCHANGED <<bv_ids, total_proxies, video_idx, increment_target,
                   initial_view_count, b_current, last_check_time,
                   target_reached, proxy_index, successful_videos, fed_for>>

\* except Exception: failed_videos.append(bv); continue
B_info_fail ==
    /\ MainAt("info")
    /\ failed_videos' = Append(failed_videos, bv_ids[video_idx])
    /\ info_failed' = info_failed \cup {video_idx}
    /\ video_idx' = video_idx + 1
    /\ b_pc' = NextVideoPc(video_idx)
    /\ UNCHANGED <<now, execVars, sigVars, poolVars, threadVars>>
    /\ UNCHANGED <<bv_ids, total_proxies, increment_target, initial_view_count,
                   b_current, last_check_time, target_reached, proxy_index,
                   successful_videos, fed_for>>

\* the validator and consumer threads of the video are started; the locals
\* of the monitor loop are set
B_start ==
    /\ MainAt("start")
    /\ bt_pc' = [t \in BThreads |->
                   IF t \in validator_threads[video_idx]
                              \cup consumer_threads[video_idx]
                      THEN "loop" ELSE bt_pc[t]]
    /\ b_current' = initial_view_count
    /\ last_check_time' = now
    /\ target_reached' = FALSE
    /\ proxy_index' = 0
    /\ b_pc' = "feed"
    /\ UNCHANGED <<now, execVars, sigVars, poolVars, bt_proxy>>
    /\ UNCHANGED <<bv_ids, total_proxies, video_idx, increment_target,
                   initial_view_count, successful_videos, failed_videos,
                   info_failed, fed_for>>

\* the monitor loop feeds a batch of proxies, sleeps and updates the display
B_feed ==
    /\ MainAt("feed")
    /\ IF proxy_index < Len(total_proxies)
          THEN LET batch_size ==
                      Min(BatchLimit, Len(total_proxies) - proxy_index)
               IN  /\ b_proxy_queue' =
                         b_proxy_queue \o SubSeq(total_proxies, proxy_index + 1,
                                                 proxy_index + batch_size)
                   /\ proxy_index' = proxy_index + batch_size
                   /\ fed_for' = [fed_for EXCEPT ![video_idx] = @ + batch_size]
          ELSE UNCHANGED <<b_proxy_queue, proxy_index, fed_for>>
    /\ b_pc' = "check"
    /\ UNCHANGED <<now, execVars, sigVars, threadVars>>
    /\ UNCHANGED <<b_validated_queue, stop_event, b_checked_count,
                   b_validated_count, successful_hits, proxy_cooldown,
                   proxy_cooldown_lock>>
    /\ UNCHANGED <<bv_ids, total_proxies, video_idx, increment_target,
                   initial_view_count, b_current, last_check_time,
                   target_reached, successful_videos, failed_videos,
                   info_failed>>

\* the check interval has not elapsed
B_check_skip ==
    /\ MainAt("check")
    /\ now - last_check_time < CheckInterval
    /\ b_pc' = "while"
    /\ UNCHANGED <<now, execVars, sigVars, poolVars, threadVars>>
    /\ UNCHANGED <<bv_ids, total_proxies, video_idx, increment_target,
                   initial_view_count, b_current, last_check_time,
                   target_reached, proxy_index, successful_videos,
                   failed_videos, info_failed, fed_for>>

\* the check interval has elapsed: try: requests.get(...)
B_check_begin ==
    /\ MainAt("check")
    /\ now - last_check_time >= CheckInterval
    /\ b_pc' = "check_req"
    /\ UNCHANGED <<now, execVars, sigVars, poolVars, threadVars>>
    /\ UNCHANGED <<bv_ids, total_proxies, video_idx, increment_target,
                   initial_view_count, b_current, last_check_time,
                   target_reached, proxy_index, successful_videos,
                   failed_videos, info_failed, fed_for>>

\* the view count was read: on the target, stop_event.set() and break
B_check_ok ==
    /\ MainAt("check_req")
    /\ \E v \in 0..MaxView :
          /\ b_current' = v
          /\ IF check_reached(v)
                THEN /\ target_reached' = TRUE
                     /\ stop_event' = TRUE
                     /\ b_pc' = "stop"
                     /\ UNCHANGED last_check_time
                ELSE /\ last_check_time' = now
                     /\ b_pc' = "while"
                     /\ UNCHANGED <<target_reached, stop_event>>
    /\ UNCHANGED <<now, execVars, sigVars, threadVars>>
    /\ UNCHANGED <<b_proxy_queue, b_validated_queue, b_checked_count,
                   b_validated_count, successful_hits, proxy_cooldown,
                   proxy_cooldown_lock>>
    /\ UNCHANGED <<bv_ids, total_proxies, video_idx, increment_target,
                   initial_view_count, proxy_index, successful_videos,
                   failed_videos, info_failed, fed_for>>

\* the read raised: except: pass
B_check_fail ==
    /\ MainAt("check_req")
    /\ last_check_time' = now
    /\ b_pc' = "while"
    /\ UNCHANGED <<now, execVars, sigVars, poolVars, threadVars>>
    /\ UNCHANGED <<bv_ids, total_proxies, video_idx, increment_target,
                   initial_view_count, b_current, target_reached, proxy_index,
                   successful_videos, failed_videos, info_failed, fed_for>>

\* while not target_reached
B_while ==
    /\ MainAt("while")
    /\ b_pc' = IF ~target_reached THEN "feed" ELSE "stop"
    /\ UNCHANGED <<now, execVars, sigVars, poolVars, threadVars>>
    /\ UNCHANGED <<bv_ids, total_proxies, video_idx, increment_target,
                   initial_view_count, b_current, last_check_time,
                   target_reached, proxy_index, successful_videos,
                   failed_videos, info_failed, fed_for>>

\* after the loop: stop_event.set(); sleep(2)
B_stop ==
    /\ MainAt("stop")
    /\ stop_event' = TRUE
    /\ b_pc' = "final"
    /\ UNCHANGED <<now, execVars, sigVars, mainFrame, threadVars>>
    /\ UNCHANGED <<b_proxy_queue, b_validated_queue, b_checked_count,
                   b_validated_count, successful_hits, proxy_cooldown,
                   proxy_cooldown_lock>>

\* the final display updates from the counters; try: requests.get(...)
B_final ==
    /\ MainAt("final")
    /\ b_pc' = "final_req"
    /\ UNCHANGED <<now, execVars, sigVars, mainFrame, poolVars, threadVars>>

\* the final view count was read
B_final_ok ==
    /\ MainAt("final_req")
    /\ \E v \in 0..MaxView : b_current' = v
    /\ b_pc' = "summary"
    /\ UNCHANGED <<now, execVars, sigVars, poolVars, threadVars>>
    /\ UNCHANGED <<bv_ids, total_proxies, video_idx, increment_target,
                   initial_view_count, last_check_time, target_reached,
                   proxy_index, successful_videos, failed_videos, info_failed,
                   fed_for>>

\* the final read raised: except: pass
B_final_fail ==
    /\ MainAt("final_req")
    /\ b_pc' = "summary"
    /\ UNCHANGED <<now, execVars, sigVars, mainFrame, poolVars, threadVars>>

\* the summary recording the videos that reached the target and no other
B_summary_successes_only ==
    /\ MainAt("summary")
    /\ LET view_increase == b_current - initial_view_count
           reached == view_increase >= increment_target
       IN  /\ target_reached' = reached
           /\ successful_videos' =
                 IF reached THEN Append(successful_videos, bv_ids[video_idx])
                            ELSE successful_videos
           /\ UNCHANGED failed_videos
    /\ video_idx' = video_idx + 1
    /\ b_pc' = NextVideoPc(video_idx)
    /\ UNCHANGED <<now, execVars, sigVars, poolVars, threadVars>>
    /\ UNCHANGED <<bv_ids, total_proxies, increment_target, initial_view_count,
                   b_current, last_check_time, proxy_index, info_failed,
                   fed_for>>

\* the summary of the video: target_reached is computed again from the
\* final view count and the video goes to one of the two lists
B_summary ==
    /\ MainAt("summary")
    /\ LET view_increase == b_current - initial_view_count
           reached == view_increase >= increment_target
       IN  /\ target_reached' = reached
           /\ IF reached
                 THEN /\ successful_videos' =
                            Append(successful_videos, bv_ids[video_idx])
                      /\ UNCHANGED failed_videos
                 ELSE /\ failed_videos' =
                            Append(failed_videos, bv_ids[video_idx])
                      /\ UNCHANGED successful_videos
    /\ video_idx' = video_idx + 1
    /\ b_pc' = NextVideoPc(video_idx)
    /\ UNCHANGED <<now, execVars, sigVars, poolVars, threadVars>>
    /\ UNCHANGED <<bv_ids, total_proxies, increment_target, initial_view_count,
                   b_current, last_check_time, proxy_index, info_failed,
                   fed_for>>

\* the end of the script: the threads are daemons, the process exits
B_end ==
    /\ MainAt("end")
    /\ exited' = TRUE
    /\ exit_status' = 0
    /\ UNCHANGED <<now, execVars, mainVars, poolVars, threadVars,
                   shutdown_requested, s_handler, s_original>>

\* one step of the main thread of booster.py
main_thread ==
    \/ B_fetch \/ B_fetch_raise \/ B_check_empty
    \/ B_info_ok \/ B_info_fail \/ B_start
    \/ B_feed \/ B_check_skip \/ B_check_begin \/ B_check_ok \/ B_check_fail
    \/ B_while \/ B_stop \/ B_final \/ B_final_ok \/ B_final_fail
    \/ B_summary \/ B_end

\* ------------------------------------------------------------------ booster.py, the worker threads

\* --cooldown
cooldown_time == Cooldown

\* the variables of the main thread and of the process
notThreads == <<now, execVars, sigVars, mainVars>>

\* proxy_validator(): while not stop_event.is_set()
BV_loop(t) ==
    /\ ~exited
    /\ bt_pc[t] = "loop"
    /\ bt_pc' = [bt_pc EXCEPT ![t] = IF stop_event THEN "done" ELSE "get"]
    /\ UNCHANGED <<notThreads, poolVars, bt_proxy>>

\* proxy_validator(): proxy = proxy_queue.get(timeout=1)
BV_get(t) ==
    /\ ~exited
    /\ bt_pc[t] = "get"
    /\ b_proxy_queue # <<>>
    /\ bt_proxy' = [bt_proxy EXCEPT ![t] = Head(b_proxy_queue)]
    /\ b_proxy_queue' = Tail(b_proxy_queue)
    /\ bt_pc' = [bt_pc EXCEPT ![t] = "count"]
    /\ UNCHANGED <<notThreads, b_validated_queue, stop_event, b_checked_count,
                   b_validated_count, successful_hits, proxy_cooldown,
                   proxy_cooldown_lock>>

\* proxy_validator(): except: continue
BV_empty(t) ==
    /\ ~exited
    /\ bt_pc[t] = "get"
    /\ b_proxy_queue = <<>>
    /\ bt_pc' = [bt_pc EXCEPT ![t] = "loop"]
    /\ UNCHANGED <<notThreads, poolVars, bt_proxy>>

\* proxy_validator(): with lock: checked_count += 1
BV_count(t) ==
    /\ ~exited
    /\ bt_pc[t] = "count"
    /\ b_checked_count' = b_checked_count + 1
    /\ bt_pc' = [bt_pc EXCEPT ![t] = "probe"]
    /\ UNCHANGED <<notThreads, b_proxy_queue, b_validated_queue, stop_event,
                   b_validated_count, successful_hits, proxy_cooldown,
                   proxy_cooldown_lock, bt_proxy>>

\* proxy_validator(): the probe returned; validated_queue.put(proxy)
BV_probe_ok(t) ==
    /\ ~exited
    /\ bt_pc[t] = "probe"
    /\ b_validated_queue' = Append(b_validated_queue, bt_proxy[t])
    /\ bt_pc' = [bt_pc EXCEPT ![t] = "vcount"]
    /\ UNCHANGED <<notThreads, b_proxy_queue, stop_event, b_checked_count,
                   b_validated_count, successful_hits, proxy_cooldown,
                   proxy_cooldown_lock, bt_proxy>>

\* proxy_validator(): the probe raised; except: pass; task_done()
BV_probe_fail(t) ==
    /\ ~exited
    /\ bt_pc[t] = "probe"
    /\ bt_proxy' = [bt_proxy EXCEPT ![t] = NoProxy]
    /\ bt_pc' = [bt_pc EXCEPT ![t] = "loop"]
    /\ UNCHANGED <<notThreads, poolVars>>

\* proxy_validator(): with lock: validated_count += 1; task_done()
BV_vcount(t) ==
    /\ ~exited
    /\ bt_pc[t] = "vcount"
    /\ b_validated_count' = b_validated_count + 1
    /\ bt_proxy' = [bt_proxy EXCEPT ![t] = NoProxy]
    /\ bt_pc' = [bt_pc EXCEPT ![t] = "loop"]
    /\ UNCHANGED <<notThreads, b_proxy_queue, b_validated_queue, stop_event,
                   b_checked_count, successful_hits, proxy_cooldown,
                   proxy_cooldown_lock>>

\* one step of a thread that runs proxy_validator()
proxy_validator(t) ==
    \/ BV_loop(t) \/ BV_get(t) \/ BV_empty(t) \/ BV_count(t)
    \/ BV_probe_ok(t) \/ BV_probe_fail(t) \/ BV_vcount(t)

\* proxy_consumer(): while not stop_event.is_set()
BC_loop(t) ==
    /\ ~exited
    /\ bt_pc[t] = "loop"
    /\ bt_pc' = [bt_pc EXCEPT ![t] = IF stop_event THEN "done" ELSE "get"]
    /\ UNCHANGED <<notThreads, poolVars, bt_proxy>>

\* proxy_consumer(): proxy = validated_queue.get(timeout=1)
BC_get(t) ==
    /\ ~exited
    /\ bt_pc[t] = "get"
    /\ b_validated_queue # <<>>
    /\ bt_proxy' = [bt_proxy EXCEPT ![t] = Head(b_validated_queue)]
    /\ b_validated_queue' = Tail(b_validated_queue)
    /\ bt_pc' = [bt_pc EXCEPT ![t] = "cool"]
    /\ UNCHANGED <<notThreads, b_proxy_queue, stop_event, b_checked_count,
                   b_validated_count, successful_hits, proxy_cooldown,
                   proxy_cooldown_lock>>

\* proxy_consumer(): except: continue
BC_empty(t) ==
    /\ ~exited
    /\ bt_pc[t] = "get"
    /\ b_validated_queue = <<>>
    /\ bt_pc' = [bt_pc EXCEPT ![t] = "loop"]
    /\ UNCHANGED <<notThreads, poolVars, bt_proxy>>

\* proxy_consumer(): with proxy_cooldown_lock: in cooldown, the proxy is put
\* back and the thread sleeps inside the with block; otherwise the block is
\* left
BC_cool(t) ==
    /\ ~exited
    /\ bt_pc[t] = "cool"
    /\ LockFree(proxy_cooldown_lock)
    /\ IF now - Get(proxy_cooldown, bt_proxy[t], 0) < cooldown_time
          THEN /\ b_validated_queue' = Append(b_validated_queue, bt_proxy[t])
               /\ proxy_cooldown_lock' = t
               /\ bt_pc' = [bt_pc EXCEPT ![t] = "sleep"]
          ELSE /\ bt_pc' = [bt_pc EXCEPT ![t] = "post"]
               /\ UNCHANGED <<b_validated_queue, proxy_cooldown_lock>>
    /\ UNCHANGED <<notThreads, b_proxy_queue, stop_event, b_checked_count,
                   b_validated_count, successful_hits, proxy_cooldown,
                   bt_proxy>>

\* proxy_consumer(): sleep(1) is over; continue leaves the with block
BC_wake(t) ==
    /\ ~exited
    /\ bt_pc[t] = "sleep"
    /\ proxy_cooldown_lock' = NoThread
    /\ bt_proxy' = [bt_proxy EXCEPT ![t] = NoProxy]
    /\ bt_pc' = [bt_pc EXCEPT ![t] = "loop"]
    /\ UNCHANGED <<notThreads, b_proxy_queue, b_validated_queue, stop_event,
                   b_checked_count, b_validated_count, successful_hits,
                   proxy_cooldown>>

\* proxy_consumer(): the request returned; with lock: successful_hits += 1
BC_post_ok(t) ==
    /\ ~exited
    /\ bt_pc[t] = "post"
    /\ successful_hits' = successful_hits + 1
    /\ bt_pc' = [bt_pc EXCEPT ![t] = "stamp"]
    /\ UNCHANGED <<notThreads, b_proxy_queue, b_validated_queue, stop_event,
                   b_checked_count, b_validated_count, proxy_cooldown,
                   proxy_cooldown_lock, bt_proxy>>

\* proxy_consumer(): with proxy_cooldown_lock: proxy_cooldown[proxy] = now;
\* validated_queue.put(proxy); task_done()
BC_stamp(t) ==
    /\ ~exited
    /\ bt_pc[t] = "stamp"
    /\ LockFree(proxy_cooldown_lock)
    /\ proxy_cooldown' = Put(proxy_cooldown, bt_proxy[t], now)
    /\ b_validated_queue' = Append(b_validated_queue, bt_proxy[t])
    /\ bt_proxy' = [bt_proxy EXCEPT ![t] = NoProxy]
    /\ bt_pc' = [bt_pc EXCEPT ![t] = "loop"]
    /\ UNCHANGED <<notThreads, b_proxy_queue, stop_event, b_checked_count,
                   b_validated_count, successful_hits, proxy_cooldown_lock>>

\* proxy_consumer(): the request raised; except: pass; task_done()
BC_post_fail(t) ==
    /\ ~exited
    /\ bt_pc[t] = "post"
    /\ bt_proxy' = [bt_proxy EXCEPT ![t] = NoProxy]
    /\ bt_pc' = [bt_pc EXCEPT ![t] = "loop"]
    /\ UNCHANGED <<notThreads, poolVars>>

\* one step of a thread that runs proxy_consumer()
proxy_consumer(t) ==
    \/ BC_loop(t) \/ BC_get(t) \/ BC_empty(t) \/ BC_cool(t) \/ BC_wake(t)
    \/ BC_post_ok(t) \/ BC_stamp(t) \/ BC_post_fail(t)

\* ------------------------------------------------------------------ booster.py, the start of the script

\* The module-level state of booster.py with the main thread at pc and the
\* videos ids on the command line.
ScriptWith(pc, ids) ==
    /\ bv_ids = ids
    /\ b_pc = pc
    /\ total_proxies = <<>>
    /\ video_idx = 1
    /\ initial_view_count = 0
    /\ b_current = 0
    /\ last_check_time = now
    /\ target_reached = FALSE
    /\ proxy_index = 0
    /\ successful_videos = <<>>
    /\ failed_videos = <<>>
    /\ info_failed = {}
    /\ fed_for = [k \in 1..Len(bv_ids) |-> 0]
    /\ b_proxy_queue = <<>>
    /\ b_validated_queue = <<>>
    /\ stop_event = FALSE
    /\ b_checked_count = 0
    /\ b_validated_count = 0
    /\ successful_hits = 0
    /\ proxy_cooldown = EmptyDict
    /\ proxy_cooldown_lock = NoThread
    /\ bt_pc = [t \in BThreads |-> "unstarted"]
    /\ bt_proxy = [t \in BThreads |-> NoProxy]
    /\ shutdown_requested = FALSE
    /\ exited = FALSE
    /\ exit_status = 0

\* The module-level state with two different videos on the command line.
ScriptAt(pc) == ScriptWith(pc, <<"BV1", "BV2">>)

\* booster.py is not run.
ScriptNotRun ==
    /\ ScriptAt("unrun")
    /\ increment_target = 1
    /\ s_handler = DefaultHandler
    /\ s_original = NoHandler

\* booster.py starts with the arguments parsed: the increment is not zero.
\* handlers are the handlers SIGINT may have: Python's default handler, a
\* disposition inherited or set before, or the method of a ShutdownHandler
\* whose install() was called on Python's default handler.
InitScript(handlers) ==
    /\ ScriptAt("fetch")
    /\ increment_target \in 1..MaxView
    /\ s_handler \in handlers
    /\ s_original = IF s_installed THEN DefaultHandler ELSE NoHandler

\* The classes of executor.py with no job, no candidate and no thread.
ExecutorNotUsed ==
    /\ InitJobs(<<>>, {})
    /\ InitDispatcherStopped(<<>>)
    /\ InitValidated(<<>>)

\* ------------------------------------------------------------------ specifications

\* one step of the thread that runs dispatch_worker()
dispatch_worker(w) ==
    \/ D_loop(w) \/ D_get(w) \/ D_empty(w)
    \/ D_acquire(w) \/ D_scan(w) \/ D_pick_none(w) \/ D_pick(w)
    \/ D_put_none(w) \/ D_gate(w) \/ D_post_ok(w) \/ D_post_fail(w)
    \/ D_put(w)

DispatcherStep == \E w \in DWorkers : dispatch_worker(w)

\* one step of the thread that runs validate_worker()
validate_worker(w) ==
    \/ V_loop(w) \/ V_get(w) \/ V_empty(w)
    \/ V_checked_load(w) \/ V_checked_store(w)
    \/ V_probe_ok(w) \/ V_probe_fail(w)
    \/ V_validated_load(w) \/ V_validated_store(w)

ValidatorStep == \E w \in VWorkers : validate_worker(w)

\* Two jobs served by the dispatcher from a pool of validated proxies while
\* the monitor refreshes the view counts.
Init ==
    /\ now = StartTime
    /\ ScriptNotRun
    /\ InitJobs(<<"J1", "J2">>, DispatchConfigs)
    /\ InitDispatcher(<<"J1", "J2">>)
    /\ \E pool \in Pools : InitValidated(pool)

Next ==
    \/ DispatcherStep
    \/ \E j \in AllJobs : M_update(j) \/ M_update_fail(j)

Spec == Init /\ [][Next]_vars

\* Three jobs whose view counts do not change, so that each stays complete
\* or incomplete for the whole run.
InitRoundRobin ==
    /\ now = StartTime
    /\ ScriptNotRun
    /\ InitJobs(<<"J1", "J2", "J3">>, DispatchConfigs)
    /\ InitDispatcher(<<"J1", "J2", "J3">>)
    /\ \E pool \in Pools : InitValidated(pool)

NextRoundRobin == DispatcherStep

SpecRoundRobin == InitRoundRobin /\ [][NextRoundRobin]_vars

\* The whole pipeline: the validator feeds the pool the dispatcher cycles.
InitPipeline ==
    /\ now = StartTime
    /\ ScriptNotRun
    /\ InitJobs(<<"J1">>, DispatchConfigs)
    /\ InitDispatcher(<<"J1">>)
    /\ \E raw \in SeqsUpTo(Proxies, 2) : InitValidator(raw)

NextPipeline == ValidatorStep \/ DispatcherStep

SpecPipeline == InitPipeline /\ [][NextPipeline]_vars

\* One job alone: threads call use_proxy() on it, the monitor calls
\* update_view_count() and is_complete(), the clock runs.
InitJobsAlone ==
    /\ now = StartTime
    /\ ScriptNotRun
    /\ InitJobs(<<"J1">>, JobConfigs)
    /\ InitDispatcher(<<"J1">>)
    /\ InitValidated(<<>>)

CallerStep ==
    \E w \in DWorkers :
       \/ \E j \in AllJobs, p \in Proxies : T_call(w, j, p)
       \/ D_gate(w) \/ D_post_ok(w) \/ D_post_fail(w) \/ T_return(w)

NextJobs ==
    \/ CallerStep
    \/ \E j \in AllJobs : M_update(j) \/ M_update_fail(j) \/ M_is_complete(j)
    \/ Tick

SpecJobs == InitJobsAlone /\ [][NextJobs]_vars

\* One job alone and the snapshots the monitor takes of it: the monitor
\* refreshes it, calls is_complete() and get_progress(); one thread calls
\* use_proxy() with one proxy.
SoloCallerStep ==
    \/ \E j \in AllJobs : T_call("d1", j, "p1")
    \/ D_gate("d1") \/ D_post_ok("d1") \/ D_post_fail("d1") \/ T_return("d1")

NextProgress ==
    \/ SoloCallerStep
    \/ \E j \in AllJobs :
          M_update(j) \/ M_is_complete(j) \/ M_get_progress(j)
    \/ Tick

SpecProgress == InitJobsAlone /\ [][NextProgress]_vars

\* One job whose is_complete() is called by the dispatcher workers, in
\* _get_next_video(), and by the monitor, while the monitor refreshes the
\* view count and the clock runs.
InitCompletion ==
    /\ now = StartTime
    /\ ScriptNotRun
    /\ InitJobs(<<"J1">>, JobConfigs)
    /\ InitDispatcher(<<"J1">>)
    /\ \E pool \in Pools : InitValidated(pool)

NextCompletion ==
    \/ DispatcherStep
    \/ \E j \in AllJobs : M_update(j) \/ M_is_complete(j)
    \/ Tick

SpecCompletion == InitCompletion /\ [][NextCompletion]_vars

\* The shutdown of each component: the validator works on a seeded raw
\* channel after the dispatcher was stopped, or the dispatcher works on a
\* validated pool after the validator was stopped, and stop() is called on
\* the running component at any moment. Every thread is scheduled again and
\* again (they are operating-system threads), every network call returns or
\* times out, and a lock that is released is eventually given to a thread
\* that waits for it.
InitStop ==
    /\ now = StartTime
    /\ ScriptNotRun
    /\ InitJobs(<<"J1">>, DispatchConfigs)
    /\ \/ /\ InitDispatcherStopped(<<"J1">>)
          /\ \E raw \in SeqsUpTo(Proxies, MaxRaw) : InitValidator(raw)
       \/ /\ InitDispatcher(<<"J1">>)
          /\ \E pool \in Pools : InitValidated(pool)

NextStop == ValidatorStep \/ DispatcherStep \/ V_stop \/ D_stop

SpecStop ==
    /\ InitStop
    /\ [][NextStop]_vars
    /\ \A w \in DWorkers : WF_vars(dispatch_worker(w))
    /\ \A w \in VWorkers : WF_vars(validate_worker(w))

\* A run of booster.py as it is, with no ShutdownHandler installed and no
\* signal sent: the main thread, the worker threads it starts for each
\* video, the clock.
InitBooster ==
    /\ now  = StartTime
    /\ ExecutorNotUsed
    /\ InitScript({DefaultHandler})

WorkerStep ==
    \E k \in 1..Len(bv_ids) :
       \/ \E t \in validator_threads[k] : proxy_validator(t)
       \/ \E t \in consumer_threads[k] : proxy_consumer(t)

NextBooster == main_thread \/ WorkerStep \/ Tick

SpecBooster == InitBooster /\ [][NextBooster]_vars

\* A run of booster.py on every command line: two different videos, or the
\* same video given twice (--bvids BV1 BV1).
InitVideos ==
    /\ now = StartTime
    /\ ExecutorNotUsed
    /\ \E ids \in VideoArgs : ScriptWith("fetch", ids)
    /\ increment_target \in 1..MaxView
    /\ s_handler = DefaultHandler
    /\ s_original = NoHandler

SpecVideos == InitVideos /\ [][NextBooster]_vars

\* Either pipeline from its start: the classes of executor.py with a seeded
\* raw channel, or the script booster.py with its own queues and threads.
InitChannels == InitPipeline \/ InitBooster

NextChannels == NextPipeline \/ NextBooster

SpecChannels == InitChannels /\ [][NextChannels]_vars

\* The main thread of booster.py and SIGINT, sent at any moment and any
\* number of times, handled by an installed ShutdownHandler, by Python's
\* default handler or by the disposition SIGINT had before; install() and
\* uninstall() are called at any moment. Signal handlers run in the main
\* thread; the worker threads write nothing the main thread's control flow
\* reads, and their steps are left out.
InitInterrupt ==
    /\ now  = StartTime
    /\ ExecutorNotUsed
    /\ InitScript(PreviousHandlers \cup {OwnHandler})

NextInterrupt ==
    \/ main_thread
    \/ S_install \/ S_uninstall
    \/ S_handle_signal \/ S_default_int \/ S_default_action
    \/ Tick

SpecInterrupt == InitInterrupt /\ [][NextInterrupt]_vars

\* One job and the threads that call use_proxy() on it with either proxy,
\* every statement of the commit block being a step of its own; the clock
\* runs.
LockedCallerStep ==
    \E w \in DWorkers :
       \/ \E j \in AllJobs, p \in Proxies : T_call(w, j, p)
       \/ L_gate(w) \/ L_post_ok(w) \/ D_post_fail(w)
       \/ L_commit_load(w) \/ L_commit_hits(w) \/ L_commit_stamp(w)
       \/ T_return(w)

InitCommit ==
    /\ now = StartTime
    /\ ScriptNotRun
    /\ InitJobs(<<"J1">>, CooldownConfigs)
    /\ InitDispatcher(<<"J1">>)
    /\ InitValidated(<<>>)

NextCommit == LockedCallerStep \/ Tick

SpecCommit == InitCommit /\ [][NextCommit]_vars

\* The whole pipeline with every lock of executor.py explicit: a validator
\* worker and the counter lock, a dispatcher worker with the selection lock
\* and the job lock, the monitor in update_view_count(). One thread of each
\* kind runs: the job lock is contended by the dispatcher worker and the
\* monitor.
InitLocks ==
    /\ now = StartTime
    /\ ScriptNotRun
    /\ InitJobs(<<"J1">>, {[initial |-> 0, target |-> 1, cooldown |-> Cooldown]})
    /\ InitDispatcher(<<"J1">>)
    /\ InitValidator(<<"p1", "p2">>)

NextLocks ==
    \/ validate_worker("v1")
    \/ dispatch_worker_locked("d1")
    \/ \E j \in AllJobs : update_view_count_locked(j)

SpecLocks == InitLocks /\ [][NextLocks]_vars

\* Every lock of executor.py explicit and contended: either two validator
\* workers on the counter lock, with a seeded raw channel and no job, or two
\* dispatcher workers on the selection lock and, with the monitor, on the
\* job lock, with a validated pool and a stopped validator.
\* Scheduling is fair: a thread that can step again and again does step,
\* and a thread waiting for a lock that is released again and again gets it.
InitFair ==
    /\ now = StartTime
    /\ ScriptNotRun
    /\ \/ /\ InitJobs(<<>>, {})
          /\ InitDispatcherStopped(<<>>)
          /\ \E raw \in SeqsUpTo(Proxies, MaxRaw) : InitValidator(raw)
       \/ /\ InitJobs(<<"J1">>, DispatchConfigs)
          /\ InitDispatcher(<<"J1">>)
          /\ \E pool \in Pools : InitValidated(pool)

NextFair ==
    \/ \E w \in VWorkers : validate_worker(w)
    \/ \E w \in DWorkers : dispatch_worker_locked(w)
    \/ \E j \in AllJobs : update_view_count_locked(j)

SpecFair ==
    /\ InitFair
    /\ [][NextFair]_vars
    /\ \A w \in VWorkers : SF_vars(validate_worker(w))
    /\ \A w \in DWorkers : SF_vars(dispatch_worker_locked(w))
    /\ \A j \in AllJobs : WF_vars(update_view_count_locked(j))

\* Two jobs that stay incomplete (nothing refreshes their view counts) served
\* by the dispatcher workers from a validated pool of one or two proxies
\* whose attempts always succeed. No job is complete, so _get_next_video()
\* never returns None; no request raises. Scheduling is fair: each worker
\* steps again and again, and gets the dispatcher lock when it is released
\* again and again.
InitOffer ==
    /\ now = StartTime
    /\ ScriptNotRun
    /\ InitJobs(<<"J1", "J2">>,
                {[initial |-> 0, target |-> 1, cooldown |-> Cooldown]})
    /\ InitDispatcher(<<"J1", "J2">>)
    /\ \E pool \in Pools : InitValidated(pool)

offer_worker(w) ==
    \/ D_loop(w) \/ D_get(w) \/ D_empty(w)
    \/ D_acquire(w) \/ D_scan(w) \/ D_pick(w)
    \/ D_gate(w) \/ D_post_ok(w) \/ D_put(w)

NextOffer == \E w \in DWorkers : offer_worker(w)

SpecOffer ==
    /\ InitOffer
    /\ [][NextOffer]_vars
    /\ \A w \in DWorkers : SF_vars(offer_worker(w))

\* Two jobs and their cooldown tables: threads call use_proxy() with any
\* proxy on either job while the clock runs. use_proxy() and can_use_proxy()
\* read no view count, so the monitor is left out.
InitCooldown ==
    /\ now = StartTime
    /\ ScriptNotRun
    /\ InitJobs(<<"J1", "J2">>, CooldownConfigs)
    /\ InitDispatcher(<<"J1", "J2">>)
    /\ InitValidated(<<>>)

NextCooldown == CallerStep \/ Tick

SpecCooldown == InitCooldown /\ [][NextCooldown]_vars

\* The validator alone, on every seeding of the raw channel.
InitValidation ==
    /\ now = StartTime
    /\ ScriptNotRun
    /\ InitJobs(<<>>, {})
    /\ InitDispatcher(<<>>)
    /\ \E raw \in SeqsUpTo(Proxies, MaxRaw) : InitValidator(raw)

NextValidation == ValidatorStep \/ V_stop

SpecValidation == InitValidation /\ [][NextValidation]_vars

\* ------------------------------------------------------------------ claims

\* current_view - initial_view >= target_increment, written out
TargetReached(j) == current_view[j] - initial_view[j] >= target_increment[j]

\* C1: every call of is_complete() returns true if and only if, at the moment
\* of the call, current_view - initial_view >= target_increment.
C1_IsCompleteIffTargetReached ==
    [][\A j \in AllJobs :
          M_is_complete(j) => (m_done'[j] <=> TargetReached(j))]_vars

\* C1 witness: is_complete() has returned true for a job whose view count was
\* refreshed to its target.
C1_Witness ==
    \E j \in Range(video_boosters) :
       /\ m_done[j]
       /\ TargetReached(j)
       /\ current_view[j] # initial_view[j]

\* C2: once is_complete() has returned true for a job, every later call of
\* is_complete() on that job returns true.
C2_CompletionLatched ==
    [][\A j \in AllJobs : m_done[j] => m_done'[j]]_vars

\* C3: in every reachable state the stored flag completed, as get_progress()
\* reports it, is true if and only if
\* current_view - initial_view >= target_increment.
C3_FlagIffTargetReached ==
    \A j \in Range(video_boosters) :
       get_progress(j).completed <=> TargetReached(j)

\* C3 as amended: in every reachable state the stored flag completed is true
\* if and only if some is_complete() call made so far on the job has found
\* current_view - initial_view >= target_increment; end_time is set exactly
\* when the flag is.
C3_FlagIffSomeCallFoundTarget ==
    \A j \in Range(video_boosters) :
       /\ get_progress(j).completed <=> ever_done[j]
       /\ completed[j] <=> end_time[j] # NoTime

\* C3 witness: the flag is set on a job whose refreshed view count is below
\* the target again.
C3_Witness ==
    \E j \in Range(video_boosters) :
       completed[j] /\ ever_done[j] /\ ~TargetReached(j)

\* C4: after a use_proxy(R) on J that returned true at time t, every
\* use_proxy(R) on J made earlier than t + cooldown returns false, and one
\* made at or after t + cooldown passes the cooldown check again. t is the
\* time of the latest such call.
C4_CooldownWindow ==
    [][\A w \in DWorkers :
          D_gate(w) =>
             LET j == d_video[w]
                 p == d_proxy[w]
             IN  p \in DOMAIN hit_time[j] =>
                    IF now < hit_time[j][p] + cooldown[j]
                       THEN d_pc'[w] = "put" /\ d_ret'[w] = FALSE
                       ELSE d_pc'[w] = "post"]_vars

\* C4 witness: one proxy has three hits on one job. Two threads can pass the
\* cooldown check before any hit is recorded, so the third hit was accepted
\* after an earlier one and its cooldown.
C4_Witness ==
    \E j \in Range(video_boosters), p \in Proxies :
       DOMAIN hit_time[j] = {p} /\ hits[j] >= 3

\* C5: a successful use_proxy(R) on job J leaves the cooldown table, the hit
\* counter and the eligibility of every proxy on every other job unchanged.
C5_OtherJobsUnaffected ==
    [][\A w \in DWorkers :
          D_post_ok(w) =>
             \A j2 \in AllJobs \ {d_video[w]} :
                /\ proxy_cooldowns'[j2] = proxy_cooldowns[j2]
                /\ hits'[j2] = hits[j2]
                /\ \A p \in Proxies :
                      can_use_proxy(j2, p)' = can_use_proxy(j2, p)]_vars

\* C5 witness: a proxy is in cooldown on one job and has no entry, and is
\* eligible, on another.
C5_Witness ==
    \E j \in Range(video_boosters), j2 \in Range(video_boosters), p \in Proxies :
       /\ j # j2
       /\ p \in DOMAIN proxy_cooldowns[j]
       /\ ~can_use_proxy(j, p)
       /\ p \notin DOMAIN proxy_cooldowns[j2]
       /\ can_use_proxy(j2, p)

\* C6: a resource with no entry in a job's cooldown table is eligible on that
\* job at every current time and for every configured cooldown duration.
C6_AbsentEntryEligible ==
    \A j \in Range(video_boosters), p \in Proxies :
       p \notin DOMAIN proxy_cooldowns[j] => can_use_proxy(j, p)

\* How many times p is in the validated channel or held by a dispatcher worker.
PoolCount(p) ==
    Cardinality({i \in 1..Len(validated_queue) : validated_queue[i] = p})
       + Cardinality({w \in DWorkers : d_proxy[w] = p})

\* C7: no step of a dispatcher worker changes the multiset of resources that
\* are in the validated channel or checked out by a dispatcher worker; the
\* multiset changes only by the one resource a validator worker adds.
C7_PoolConserved ==
    [][\A p \in Proxies :
          PoolCount(p)' =
             PoolCount(p)
                + (IF \E v \in VWorkers : V_probe_ok(v) /\ v_proxy[v] = p
                      THEN 1 ELSE 0)]_vars

\* C7 witness: both validated proxies have been dispatched with success and
\* are back in the channel.
C7_Witness ==
    /\ \E j \in Range(video_boosters) : DOMAIN proxy_cooldowns[j] = Proxies
    /\ \A w \in DWorkers : d_proxy[w] = NoProxy
    /\ \A p \in Proxies : PoolCount(p) = 1

\* C8: while the incomplete jobs are the same N jobs, any N consecutive
\* selections (in the order they take the dispatcher lock) select every one
\* of them, so every window of at least N consecutive dispatches does.
C8_RoundRobinWindow ==
    [][\A w \in DWorkers :
          D_pick(w) =>
             LET among == d_incomplete[w]
                 n == Len(sel_log)
                 first == n - Len(among) + 2
             IN  (first >= 1 /\ \A i \in first..n : sel_log[i].among = among)
                    => {sel_log[i].job : i \in first..n} \cup {d_video'[w]}
                          = Range(among)]_vars

\* C8 witness: among three incomplete jobs the selections have gone round
\* once and started again: the third job, then the first.
C8_Witness ==
    /\ Len(sel_log) = 2
    /\ \A i \in 1..2 : Len(sel_log[i].among) = 3
    /\ sel_log[1].job = "J3"
    /\ sel_log[2].job = "J1"

\* A job whose target is met whatever view count is read.
AlwaysComplete(j) == initial_view[j] + target_increment[j] <= 0

\* C9: _get_next_video() keeps a job exactly when the is_complete() call it
\* makes on it finds the target not reached, and returns one of the jobs it
\* kept; a job that is complete at creation and stays so is never selected
\* and receives no hit.
C9_NeverSelectsComplete ==
    [][\A w \in DWorkers :
          /\ D_scan(w) =>
                LET j == video_boosters[d_i[w]]
                IN  j \in Range(d_incomplete'[w]) <=> ~TargetReached(j)
          /\ D_pick(w) => d_video'[w] \in Range(d_incomplete[w])
          /\ \A j \in Range(video_boosters) :
                AlwaysComplete(j) => d_video'[w] # j /\ hits'[j] = 0]_vars

\* C9 witness: one job is complete at creation and the other has been
\* selected and has a hit.
C9_Witness ==
    \E w \in DWorkers, j2 \in Range(video_boosters) :
       /\ AlwaysComplete(j2)
       /\ d_video[w] \in Range(video_boosters)
       /\ hits[d_video[w]] >= 1

\* Every seeded candidate has been taken from the raw channel and processed.
AllProcessed ==
    /\ proxy_queue = <<>>
    /\ \A w \in VWorkers : v_pc[w] \in {"loop", "get", "done"}

\* C10: once all seeded raw candidates have been processed, get_stats()
\* returns checked = the number seeded and validated = the number of
\* candidates whose probe succeeded, under every interleaving of the workers.
C10_NoLostUpdates ==
    AllProcessed => get_stats = [checked |-> seeded, validated |-> probes_ok]

\* C10 witness: three candidates processed, one probe succeeded.
C10_Witness ==
    /\ AllProcessed
    /\ seeded = 3
    /\ get_stats = [checked |-> 3, validated |-> 1]

\* C11: get_progress() is idempotent: a call made when the job has not
\* changed since the previous call returns what the previous call returned,
\* whatever the clock reads, for a job that is active, complete, or complete
\* with a view count that has since dropped below the target.
C11_GetProgressIdempotent ==
    [][\A j \in AllJobs :
          (M_get_progress(j) /\ m_seen[j] = JobFields(j))
             => m_progress'[j] = m_progress[j]]_vars

\* C11 witness: a job completed, its view count dropped below the target,
\* the clock advanced, and get_progress() was called twice on the unchanged
\* job.
C11_Witness ==
    \E j \in Range(video_boosters) :
       /\ m_again[j]
       /\ m_seen[j] = JobFields(j)
       /\ completed[j]
       /\ ~TargetReached(j)
       /\ now > end_time[j]
       /\ m_progress[j].elapsed = end_time[j] - start_time[j]

\* C12: when the cancellation flag is set during the run, the monitor loop
\* observes it the next time it evaluates its condition and exits, even
\* though the target is not reached.
C12_LoopObservesCancellation ==
    [][(B_while /\ is_shutdown_requested) => b_pc' = "stop"]_vars

\* C14: the first SIGINT handled by ShutdownHandler only sets
\* shutdown_requested and the process goes on where it was; a SIGINT handled
\* after that ends the process at once with exit status 1.
C14_TwoStageInterrupt ==
    [][S_handle_signal =>
          IF shutdown_requested
             THEN exited' /\ exit_status' = 1
             ELSE shutdown_requested' /\ ~exited' /\ b_pc' = b_pc]_vars

\* C15: whenever use_proxy(R) returns false, because R is in cooldown for
\* the job or because the request raised, the call leaves the job's hit
\* counter, cooldown table, current view count, completion flag and end time
\* (and every other field of the job) unchanged.
C15_FalseLeavesJobUnchanged ==
    [][\A w \in DWorkers :
          ((D_gate(w) \/ D_post_fail(w)) /\ d_pc'[w] = "put" /\ ~d_ret'[w])
             => JobFields(d_video[w])' = JobFields(d_video[w])]_vars

\* C15 witness: use_proxy() has returned false on a job that has a hit, for
\* a proxy that is in cooldown on it, after the job completed.
C15_Witness ==
    \E w \in DWorkers :
       /\ d_pc[w] = "put"
       /\ ~d_ret[w]
       /\ d_video[w] \in Range(video_boosters)
       /\ hits[d_video[w]] >= 1
       /\ ~can_use_proxy(d_video[w], d_proxy[w])
       /\ completed[d_video[w]]
       /\ end_time[d_video[w]] # NoTime

\* C16: when the read of update_view_count() succeeds, current_view becomes
\* the value read (higher or lower than before), that value is returned and
\* no other field of the job changes; when the read fails, no field of the
\* job changes and the call returns the view count held, raising nothing.
C16_UpdateOverwritesOrKeeps ==
    [][\A j \in AllJobs :
          /\ M_update(j) =>
                /\ current_view'[j] = m_read'[j]
                /\ m_current'[j] = m_read'[j]
                /\ [JobFields(j)' EXCEPT !.current_view = current_view[j]]
                      = JobFields(j)
          /\ M_update_fail(j) =>
                /\ JobFields(j)' = JobFields(j)
                /\ m_current'[j] = current_view[j]]_vars

\* C16 witness: a read has succeeded with a value below the baseline, after
\* the job had a hit, and the job holds that value.
C16_Witness ==
    \E j \in Range(video_boosters) :
       /\ m_read[j] < initial_view[j]
       /\ current_view[j] = m_read[j]
       /\ m_current[j] = m_read[j]
       /\ hits[j] >= 1

\* No worker thread of booster.py has been started.
NoneStarted == \A t \in BThreads : bt_pc[t] = "unstarted"

\* C17: when the candidate source yields no candidate (an empty list, or the
\* source failed), the run stops with exit status 1 before any validator or
\* consumer thread is started and before any candidate is put in the raw
\* channel.
C17_NoProxiesFatalAtStartup ==
    /\ (b_pc = "fetch" /\ exited) => (exit_status = 1 /\ NoneStarted)
    /\ (b_pc \notin {"unrun", "fetch"} /\ total_proxies = <<>>) =>
          /\ b_pc = "check_empty"
          /\ exited => exit_status = 1
          /\ NoneStarted
          /\ b_proxy_queue = <<>>
          /\ proxy_index = 0

\* C17 witness: the source returned an empty list and the script has exited
\* with status 1 at the emptiness test.
C17_Witness ==
    /\ b_pc = "check_empty"
    /\ total_proxies = <<>>
    /\ exited
    /\ exit_status = 1
    /\ NoneStarted

\* C18: a video whose info request failed is recorded in failed_videos (and
\* not in successful_videos), no worker thread is started for it and no
\* candidate is fed for it, and the run goes on to the next video: the
\* failure ends the run only after the last video, with status 0.
C18_InfoFailureSkipsVideo ==
    \A k \in info_failed :
       /\ bv_ids[k] \in Range(failed_videos)
       /\ bv_ids[k] \notin Range(successful_videos)
       /\ \A t \in validator_threads[k] \cup consumer_threads[k] :
             bt_pc[t] = "unstarted"
       /\ fed_for[k] = 0
       /\ video_idx > k
       /\ IF video_idx <= Len(bv_ids) THEN b_pc # "end" /\ ~exited
                                      ELSE b_pc = "end"
       /\ exited => exit_status = 0

\* C18 witness: the info request of the first video failed; the second video
\* was then processed with its own threads and proxies and reached its
\* target.
C18_Witness ==
    /\ info_failed = {1}
    /\ failed_videos = <<"BV1">>
    /\ successful_videos = <<"BV2">>
    /\ fed_for[2] >= 1
    /\ \A t \in validator_threads[2] \cup consumer_threads[2] :
          bt_pc[t] # "unstarted"

\* C19: the monitor loop is left only when the view count it has just read
\* has reached the target, and whenever the final counters are read and the
\* summary is made, stop_event is set.
C19_LoopExitAndStopOrder ==
    /\ b_pc \in {"stop", "final"} =>
          /\ target_reached
          /\ b_current - initial_view_count >= increment_target
    /\ b_pc \in {"final", "final_req", "summary"} => stop_event

\* C19 witness: the second video is at its summary after the first one
\* reached its target; the threads were stopped and a proxy was validated
\* and used for it.
C19_Witness ==
    /\ b_pc = "summary"
    /\ video_idx = 2
    /\ successful_videos = <<"BV1">>
    /\ stop_event
    /\ target_reached
    /\ initial_view_count = 0

\* C21: the hit and the cooldown stamp of a successful use_proxy() are
\* committed inside one locked block and no hit is lost: whenever the job's
\* lock is free (so whenever another thread can read the job under it), hits
\* equals the number of use_proxy() calls on the job that returned True;
\* hits is ahead of that number, by one, only while the committing thread
\* holds the lock, and a call that returned True has left the proxy's stamp
\* in the cooldown table.
C21_CommitAtomicNoLostHit ==
    /\ \A j \in Range(video_boosters) :
          /\ j_lock[j] = NoThread => hits[j] = true_calls[j]
          /\ hits[j] # true_calls[j] =>
                /\ hits[j] = true_calls[j] + 1
                /\ j_lock[j] \in DWorkers
                /\ d_pc[j_lock[j]] = "commit_stamp"
    /\ \A w \in DWorkers :
          (d_pc[w] = "put" /\ d_ret[w]) =>
             d_proxy[w] \in DOMAIN proxy_cooldowns[d_video[w]]

\* C21 witness: both threads passed the cooldown check before either
\* committed, both calls have returned True and the job counts two hits.
C21_Witness ==
    /\ \A w \in DWorkers : d_pc[w] = "put" /\ d_ret[w] /\ d_video[w] = "J1"
    /\ hits["J1"] = 2
    /\ true_calls["J1"] = 2
    /\ j_lock["J1"] = NoThread

\* The thread holds no lock of executor.py.
HoldsNoLock(t) ==
    /\ d_lock # t
    /\ v_lock # t
    /\ \A j \in AllJobs : j_lock[j] # t

\* C22: a thread whose network call is in flight (the click request of
\* use_proxy(), the probe of validate_worker(), the view request of
\* update_view_count()) holds no job lock, no counter lock and no selection
\* lock; a lock is held only inside the blocks that commit a result, or
\* during the selection.
C22_NoNetworkUnderLock ==
    /\ \A w \in DWorkers : d_pc[w] = "post" => HoldsNoLock(w)
    /\ \A w \in VWorkers : v_pc[w] = "probe" => HoldsNoLock(w)
    /\ (\E j \in AllJobs : m_pc[j] = "req") => HoldsNoLock(Monitor)
    /\ \A j \in AllJobs :
          /\ j_lock[j] \in DWorkers =>
                /\ d_pc[j_lock[j]] \in {"commit_hits", "commit_stamp"}
                /\ d_video[j_lock[j]] = j
          /\ j_lock[j] = Monitor => m_pc[j] = "store"
    /\ v_lock \in VWorkers =>
          v_pc[v_lock] \in {"checked_store", "validated_store"}
    /\ d_lock \in DWorkers => d_pc[d_lock] = "scan"

\* C22 witness: the dispatcher worker's click request and the validator
\* worker's probe are in flight while the monitor holds the job's lock to
\* store the view count it has read.
C22_Witness ==
    /\ d_pc["d1"] = "post"
    /\ v_pc["v1"] = "probe"
    /\ j_lock["J1"] = Monitor
    /\ m_pc["J1"] = "store"

\* The candidates a validator worker holds between the dequeue and the probe.
HeldByValidator ==
    {w \in VWorkers : v_pc[w] \in {"checked_load", "checked_store", "probe"}}

\* C23: a candidate dequeued by a validator worker is probed once; a probe
\* that succeeds puts it into the validated channel once, a probe that fails
\* drops it: it is put neither into the validated channel nor back into the
\* raw channel, and the worker goes on with its loop.
C23_ProbedOnceThenPutOrDropped ==
    [][/\ \A w \in VWorkers :
             /\ V_probe_ok(w) =>
                   /\ validated_queue' = Append(validated_queue, v_proxy[w])
                   /\ proxy_queue' = proxy_queue
                   /\ w \notin HeldByValidator'
             /\ V_probe_fail(w) =>
                   /\ validated_queue' = validated_queue
                   /\ proxy_queue' = proxy_queue
                   /\ v_pc'[w] = "loop"
                   /\ w \notin HeldByValidator'
       /\ Len(proxy_queue') <= Len(proxy_queue)
       /\ Len(validated_queue') = probes_ok'
       /\ Len(proxy_queue') + Cardinality(HeldByValidator')
             + Len(validated_queue') <= seeded']_vars

\* C23 witness: two candidates were seeded and processed; one probe failed
\* and one succeeded, the validated channel holds one candidate and both
\* workers are still running.
C23_Witness ==
    /\ AllProcessed
    /\ seeded = 2
    /\ checked_count = 2
    /\ probes_ok = 1
    /\ Len(validated_queue) = 1
    /\ \A w \in VWorkers : v_pc[w] # "done"

\* C24: checked_count and validated_count never decrease, and in every state
\* get_stats() can read, validated <= checked.
C24_StatsMonotoneAndConsistent ==
    /\ [](get_stats.validated <= get_stats.checked)
    /\ [][/\ checked_count' >= checked_count
          /\ validated_count' >= validated_count]_vars

\* C24 witness: three candidates were checked and two counted as validated
\* while a worker is about to count the third.
C24_Witness ==
    /\ get_stats = [checked |-> 3, validated |-> 2]
    /\ \E w \in VWorkers : v_pc[w] = "validated_load"

\* C25: when _get_next_video() finds no incomplete video, the worker calls
\* use_proxy() on no job: it puts the proxy it holds back into the validated
\* channel and goes back to its loop, and no hit counter and no cooldown
\* table changes.
C25_NoIncompleteJobPutsBack ==
    [][\A w \in DWorkers :
          /\ (/\ d_pc[w] = "scan"
              /\ d_i[w] > Len(video_boosters)
              /\ d_incomplete[w] = <<>>
              /\ d_pc'[w] # "scan") =>
                /\ d_pc'[w] = "put_none"
                /\ d_video'[w] = NoVideo
                /\ hits' = hits
                /\ proxy_cooldowns' = proxy_cooldowns
                /\ validated_queue' = validated_queue
          /\ (d_pc[w] = "put_none" /\ d_pc'[w] # "put_none") =>
                /\ d_pc'[w] = "loop"
                /\ validated_queue' = Append(validated_queue, d_proxy[w])
                /\ hits' = hits
                /\ proxy_cooldowns' = proxy_cooldowns]_vars

\* C25 witness: a worker holds a proxy and its selection has returned None,
\* every job being complete, after a job had a hit.
C25_Witness ==
    \E w \in DWorkers :
       /\ d_pc[w] = "put_none"
       /\ d_proxy[w] \in Proxies
       /\ \A j \in Range(video_boosters) : TargetReached(j)
       /\ \E j \in Range(video_boosters) : hits[j] >= 1

\* The position of x in the list lst.
Pos(lst, x) == CHOOSE i \in 1..Len(lst) : lst[i] = x

\* C26: the index _get_next_video() picks with is within the list of
\* incomplete videos, the shared index is left one past it, and when the
\* selection made just before (by whichever worker) was among the same
\* incomplete videos, the video selected is the next one of the list in
\* cyclic order.
C26_CyclicSelection ==
    [][\A w \in DWorkers :
          D_pick(w) =>
             LET among == d_incomplete[w]
                 n == Len(among)
                 last == Len(sel_log)
             IN  /\ PickIndex(round_robin_index, n) \in 0..(n - 1)
                 /\ round_robin_index' \in 1..n
                 /\ d_video'[w] \in Range(among)
                 /\ (last >= 1 /\ sel_log[last].among = among) =>
                       Pos(among, d_video'[w])
                          = (Pos(among, sel_log[last].job) % n) + 1]_vars

\* C26 witness: two of the three jobs are incomplete; the selections took
\* the second of them and then wrapped around to the first.
C26_Witness ==
    /\ Len(sel_log) = 2
    /\ sel_log[1].among = sel_log[2].among
    /\ Len(sel_log[1].among) = 2
    /\ sel_log[1].job = sel_log[1].among[2]
    /\ sel_log[2].job = sel_log[2].among[1]
    /\ round_robin_index = 1

\* C27: no step of use_proxy(), whatever it returns and whether the job is
\* active or complete, changes current_view, initial_view, target_increment,
\* completed or end_time of any job, nor the value is_complete() would
\* return; that value changes only in update_view_count().
C27_UseProxyKeepsCompletion ==
    [][/\ \A w \in DWorkers :
             (D_gate(w) \/ D_post_ok(w) \/ D_post_fail(w)) =>
                /\ current_view' = current_view
                /\ initial_view' = initial_view
                /\ target_increment' = target_increment
                /\ completed' = completed
                /\ end_time' = end_time
                /\ \A j \in AllJobs : is_complete_ret(j)' = is_complete_ret(j)
       /\ \A j \in AllJobs :
             (is_complete_ret(j)' # is_complete_ret(j)) => M_update(j)]_vars

\* C27 witness: use_proxy() has returned true on a job that was complete
\* before the hit, and the job's end_time is the earlier time.
C27_Witness ==
    \E w \in DWorkers :
       /\ d_pc[w] = "put"
       /\ d_ret[w]
       /\ d_video[w] \in Range(video_boosters)
       /\ completed[d_video[w]]
       /\ d_proxy[w] \in DOMAIN hit_time[d_video[w]]
       /\ end_time[d_video[w]] # NoTime
       /\ end_time[d_video[w]] < hit_time[d_video[w]][d_proxy[w]]

\* How many times p is in booster.py's validated_queue or held by a consumer
\* thread that has not put it back yet.
BPoolCount(p) ==
    Cardinality({i \in 1..Len(b_validated_queue) : b_validated_queue[i] = p})
       + Cardinality({t \in UNION Range(consumer_threads) :
                         /\ bt_proxy[t] = p
                         /\ bt_pc[t] \in {"cool", "post", "stamp"}})

\* C28: proxy_consumer puts every proxy it dequeued back into validated_queue
\* whatever the attempt's outcome (success, error, cooldown deferral): no
\* step of a consumer thread lowers the number of proxies that are in the
\* queue or held by a consumer.
C28_ConsumerRequeuesAlways ==
    [][\A t \in UNION Range(consumer_threads) :
          proxy_consumer(t) =>
             \A p \in Proxies : BPoolCount(p)' >= BPoolCount(p)]_vars

\* C29: shutdown_requested is latched: it becomes true only in
\* _handle_signal(), on the first SIGINT handled, and no step, uninstall()
\* and install() included, makes it false again, so is_shutdown_requested()
\* never goes from true to false.
C29_ShutdownRequestedLatched ==
    [][/\ is_shutdown_requested => is_shutdown_requested'
       /\ (~shutdown_requested /\ shutdown_requested') => S_handle_signal
       /\ S_uninstall => shutdown_requested' = shutdown_requested]_vars

\* C29 witness: a SIGINT was handled, the handler was then uninstalled, and
\* the request is still set in the running process.
C29_Witness ==
    /\ is_shutdown_requested
    /\ ~s_installed
    /\ s_original = DefaultHandler
    /\ ~exited

\* C30: when the validator and consumer threads of a video are started, the
\* second and later videos included, stop_event is clear.
C30_StopClearAtThreadStart ==
    [][B_start => ~stop_event]_vars

\* C31: any two hits recorded for a proxy R on a job J (use_proxy() calls
\* that returned true) are at least one cooldown apart, under every
\* interleaving of the dispatcher workers, also when R is twice in the
\* candidate list and so held by two workers at once: a use_proxy(R) on J
\* returns true only when no earlier hit of R on J is younger than cooldown.
C31_HitsCooldownApart ==
    [][\A w \in DWorkers :
          D_post_ok(w) =>
             LET j == d_video[w]
                 p == d_proxy[w]
             IN  p \in DOMAIN hit_time[j] =>
                    now >= hit_time[j][p] + cooldown[j]]_vars

\* the locks thread t is inside
LocksHeld(t) ==
    {j \in AllJobs : j_lock[j] = t}
       \cup (IF d_lock = t THEN {"dispatcher"} ELSE {})
       \cup (IF v_lock = t THEN {"validator"} ELSE {})

\* thread t has reached a `with self.lock:` and is not inside it yet: a
\* validator worker before either counter block, a dispatcher worker before
\* the selection, before an is_complete() of the selection, before the
\* cooldown check or before the commit block
WaitsForLock(t) ==
    \/ /\ t \in VWorkers
       /\ v_pc[t] \in {"checked_load", "validated_load"}
    \/ /\ t \in DWorkers
       /\ \/ d_pc[t] \in {"select", "use", "commit"}
          \/ d_pc[t] = "scan" /\ d_i[t] <= Len(video_boosters)

C33_NoSleepUnderCooldownLock ==
    \A t \in UNION Range(consumer_threads) :
       bt_pc[t] = "sleep" => proxy_cooldown_lock # t

\* how many entries of seq are x
Count(seq, x) == Cardinality({i \in 1..Len(seq) : seq[i] = x})

\* C34: when the run of booster.py ends, every video of bv_ids has been
\* recorded exactly once, in exactly one of successful_videos and
\* failed_videos: the lengths of the two lists add up to len(bv_ids) and no
\* video is in both lists.
C34_EveryVideoInOneList ==
    b_pc = "end" =>
       /\ Len(successful_videos) + Len(failed_videos) = Len(bv_ids)
       /\ \A k \in 1..Len(bv_ids) :
             Count(successful_videos, bv_ids[k])
                + Count(failed_videos, bv_ids[k]) = 1
       /\ Range(successful_videos) \cap Range(failed_videos) = {}

\* C34 as amended: every entry of bv_ids is recorded exactly once. At every
\* moment the two lists hold the entries processed so far, one record each;
\* when the run ends their lengths add up to len(bv_ids) and every video is
\* recorded as many times as it was given; a video given once is in exactly
\* one list, and a video given twice is recorded twice, possibly once in
\* each list.
C34_EveryEntryRecordedOnce ==
    /\ b_pc # "unrun" =>
          /\ Len(successful_videos) + Len(failed_videos) = video_idx - 1
          /\ \A v \in Range(bv_ids) :
                Count(successful_videos, v) + Count(failed_videos, v)
                   = Count(SubSeq(bv_ids, 1, video_idx - 1), v)
          /\ \A k \in info_failed :
                k < video_idx /\ Count(failed_videos, bv_ids[k]) >= 1
    /\ b_pc = "end" =>
          /\ Len(successful_videos) + Len(failed_videos) = Len(bv_ids)
          /\ \A v \in Range(bv_ids) :
                Count(bv_ids, v) = 1 =>
                   (v \in Range(successful_videos))
                      # (v \in Range(failed_videos))

\* C34 witness: the same video was given twice; its info request failed the
\* first time and it reached the target the second time: the run has ended
\* with the video in both lists.
C34_Witness ==
    /\ b_pc = "end"
    /\ bv_ids = <<"BV1", "BV1">>
    /\ info_failed = {1}
    /\ failed_videos = <<"BV1">>
    /\ successful_videos = <<"BV1">>

\* C35: every video whose monitor loop exited because the refreshed view
\* increment reached the target (target_reached was set in the loop) is
\* recorded in successful_videos and not in failed_videos, whatever the final
\* view-count read after the loop returns.
C35_ReachedInLoopIsSuccessful ==
    [][(B_summary /\ target_reached) =>
          /\ successful_videos' = Append(successful_videos, bv_ids[video_idx])
          /\ failed_videos' = failed_videos]_vars

\* How many times p is in the raw channel of executor.py or held by a
\* validator worker that has not probed it yet.
RawCount(p) ==
    Count(proxy_queue, p)
       + Cardinality({w \in VWorkers :
                         /\ v_proxy[w] = p
                         /\ v_pc[w] \in {"checked_load", "checked_store",
                                         "probe"}})

\* How many times p is in proxy_queue of booster.py or held by a validator
\* thread that has not probed it yet.
BRawCount(p) ==
    Count(b_proxy_queue, p)
       + Cardinality({t \in UNION Range(validator_threads) :
                         /\ bt_proxy[t] = p
                         /\ bt_pc[t] \in {"count", "probe"}})

\* C36: every resource passed to a job attempt (use_proxy() through the
\* dispatcher, or the request of proxy_consumer) was taken from the raw
\* channel and passed the validator's probe. A worker's proxy is always the
\* head it took from the validated channel; an identifier is added to the
\* validated population (in the channel or checked out) only by a probe of
\* it that succeeded, on a candidate taken from the raw channel; the
\* validated population of executor.py is as large as the number of probes
\* that succeeded; and the raw channel gains an identifier only when the
\* script seeds it from the candidate list.
C36_OnlyValidatedReachJobs ==
    /\ [](b_pc = "unrun" =>
            /\ Len(validated_queue)
                  + Cardinality({w \in DWorkers : d_proxy[w] # NoProxy})
                  = probes_ok
            /\ probes_ok <= seeded)
    /\ [][\A p \in Proxies :
             /\ PoolCount(p)' > PoolCount(p) =>
                   /\ PoolCount(p)' = PoolCount(p) + 1
                   /\ RawCount(p)' = RawCount(p) - 1
                   /\ \E w \in VWorkers : V_probe_ok(w) /\ v_proxy[w] = p
             /\ RawCount(p)' <= RawCount(p)
             /\ \A w \in DWorkers :
                   (d_proxy'[w] = p /\ d_proxy[w] # p) =>
                      D_get(w) /\ validated_queue # <<>>
                               /\ Head(validated_queue) = p
             /\ BPoolCount(p)' > BPoolCount(p) =>
                   /\ BPoolCount(p)' = BPoolCount(p) + 1
                   /\ BRawCount(p)' = BRawCount(p) - 1
                   /\ \E t \in UNION Range(validator_threads) :
                         BV_probe_ok(t) /\ bt_proxy[t] = p
             /\ BRawCount(p)' > BRawCount(p) =>
                   B_feed /\ p \in Range(total_proxies)
             /\ \A t \in UNION Range(consumer_threads) :
                   (bt_proxy'[t] = p /\ bt_proxy[t] # p) =>
                      BC_get(t) /\ b_validated_queue # <<>>
                                /\ Head(b_validated_queue) = p]_vars

\* C36 witness: two candidates were seeded into the raw channel of
\* executor.py; one failed the probe and was dropped, the other passed it,
\* was dispatched to a job with success and is back in the validated channel.
C36_Witness ==
    /\ b_pc = "unrun"
    /\ seeded = 2
    /\ checked_count = 2
    /\ probes_ok = 1
    /\ proxy_queue = <<>>
    /\ \E p \in Proxies, j \in Range(video_boosters) :
          /\ validated_queue = <<p>>
          /\ DOMAIN hit_time[j] = {p}
          /\ hits[j] >= 1

\* C37: install() followed by uninstall() restores the SIGINT handler that
\* was in effect before install(), whatever it was (a Python callable, the
\* default disposition or the ignore disposition): in every state reached
\* after an install(), a call of uninstall() leaves SIGINT with the handler
\* that install() replaced.
C37_UninstallRestoresPrevious ==
    s_original # NoHandler => handler_after_uninstall = s_original

\* C38: under fair scheduling, with two jobs that stay incomplete and
\* validated resources whose attempts always succeed, every resource is
\* eventually attempted on every incomplete job, however many other
\* resources circulate in the validated channel: a resource with a hit on
\* one job (in cooldown there) eventually has one on the other job.
C38_EveryJobEventuallyOffered ==
    \A p \in Proxies :
       (\E j \in AllJobs : p \in DOMAIN hit_time[j])
          ~> (\A j \in AllJobs :
                 j \in Range(video_boosters) => p \in DOMAIN hit_time[j])

\* C20: end_time of a job is set exactly once: under every interleaving of
\* the is_complete() calls of the dispatcher workers and of the monitor, at
\* most one call takes the branch that stamps end_time and sets completed,
\* and end_time is never overwritten afterwards.
C20_EndTimeSetOnce ==
    [][\A j \in AllJobs :
          /\ end_time[j] # NoTime => end_time'[j] = end_time[j]
          /\ stamps'[j] <= 1
          /\ stamps'[j] = 1 <=> end_time'[j] # NoTime
          /\ completed'[j] <=> end_time'[j] # NoTime]_vars

\* C20 witness: the job was stamped once, at an earlier time; a dispatcher
\* worker's call has found it complete, the view count has dropped below the
\* target and the monitor's call has found it incomplete.
C20_Witness ==
    \E j \in Range(video_boosters), w \in DWorkers :
       /\ stamps[j] = 1
       /\ end_time[j] # NoTime
       /\ end_time[j] < now
       /\ ~TargetReached(j)
       /\ ~m_done[j]
       /\ d_pc[w] = "put_none"

\* C13: after stop() on a ProxyValidator or a JobDispatcher, every worker of
\* that component dequeues at most one more item, finishes it and exits: no
\* worker takes two items after the stop signal was set, and every worker
\* terminates, also on an empty queue.
C13_StopEndsWorkers ==
    /\ [](\A w \in DWorkers : d_after[w] <= 1)
    /\ [](\A w \in VWorkers : v_after[w] <= 1)
    /\ (d_stop ~> \A w \in DWorkers : d_pc[w] = "done")
    /\ (v_stop ~> \A w \in VWorkers : v_pc[w] = "done")

\* C13 witness: the validator was stopped while candidates were left in the
\* raw channel; each of its workers took one more candidate after the stop
\* signal, all of them have exited and a candidate is still in the channel.
C13_Witness ==
    /\ v_stop
    /\ \A w \in VWorkers : v_pc[w] = "done" /\ v_after[w] = 1
    /\ proxy_queue # <<>>
    /\ checked_count = 2

====
